---- MODULE Spec2Model ----
(***************************************************************************)
(* State-machine model of the compiler front end of albertexye/Compiler.   *)
(*                                                                         *)
(* Part 1: the intern pool (src/src/intern_pool.rs) with the keyword and   *)
(*         punctuator table of src/src/token.rs.                           *)
(* Part 2: the lexer (src/src/lexer/*.rs).                                 *)
(*                                                                         *)
(* Option<T> values are modelled as sets: {} is None, {v} is Some(v).      *)
(* HashMap<K, V> values are modelled as functions with a finite domain.    *)
(* Vec<T> values are sequences; the Rust index i is the TLA+ index i + 1.  *)
(***************************************************************************)
EXTENDS Integers, Sequences, FiniteSets, TLC

VARIABLES
    debug_build,      \* cfg!(debug_assertions): dev profile (TRUE) or release
    symbol_counter,   \* InternPool.symbol_counter
    symbol_pool,      \* InternPool.symbol_pool
    symbol_reverse,   \* InternPool.symbol_reverse
    path_counter,     \* InternPool.path_counter
    path_pool,        \* InternPool.path_pool
    path_reverse,     \* InternPool.path_reverse
    ret,              \* the last call of the pool API and what it returned
    panicked,         \* the thread has panicked: nothing runs after it
    hist_symbol,      \* history: string -> id of its first growth-phase insert
    hist_path,        \* history: path -> id of its first growth-phase insert
    frozen_counter,   \* history: the two counters at the freeze, {} before it
    lexer,            \* the Lexer that Lexer::lex works on
    tokens,           \* the Vec<Token> that Lexer::lex fills
    lex_state,        \* "idle", "lexing", "done" (Ok returned), "error" (Err)
    lex_error,        \* the Error that Lexer::lex returned
    files_left,       \* the files that the caller has still to lex
    lexed,            \* history: input and Ok result of each finished file
    late_calls,       \* history: the inserts and searches made after the freeze
    parser,           \* the SyntacticParser: its tokens and its index
    parsed,           \* the last call on the parser and what it returned
    world,            \* the file system: module directories, manifests, files
    loader,           \* parse_modules: its position, queue, modules and result
    resolver,         \* module::resolve: its position, queue and resolved map
    semantic          \* the SemanticParser, the semantic Ast and the last call

poolVars == <<symbol_counter, symbol_pool, symbol_reverse,
              path_counter, path_pool, path_reverse>>
histVars == <<hist_symbol, hist_path, frozen_counter, late_calls>>
lexVars == <<lexer, tokens, lex_state, lex_error, files_left, lexed>>
parseVars == <<parser, parsed>>
loadVars == <<world, loader, resolver, semantic>>
vars == <<debug_build, poolVars, ret, panicked, histVars, lexVars, parseVars, loadVars>>

-----------------------------------------------------------------------------
(* The keyword / punctuator table.                                         *)

TOKEN_TYPES_STR ==
    << ",", ";", ":", "::", ".", "(", ")", "[", "]", "{", "}", "+", "+=",
       "-", "-=", "*", "*=", "/", "/=", "%", "%=", "<<", "<<=", ">>", ">>=",
       "&", "&=", "|", "|=", "^", "^=", "~", "and", "or", "!", "==", "!=",
       ">", ">=", "<", "<=", "=", "->", "=>", "if", "else", "match", "while",
       "for", "break", "continue", "return", "fn", "let", "var", "struct",
       "enum", "union", "pub", "prv", "mod", "module", "import", "use" >>

TOKEN_TYPES_ENUM ==
    << "Comma", "Semicolon", "Colon", "DoubleColon", "Dot", "OpenParen",
       "CloseParen", "OpenBrace", "CloseBrace", "OpenBracket", "CloseBracket",
       "Plus", "PlusEq", "Minus", "MinusEq", "Mul", "MulEq", "Div", "DivEq",
       "Modulo", "ModuloEq", "LeftShift", "LeftShiftEq", "RightShift",
       "RightShiftEq", "BitAnd", "BitAndEq", "BitOr", "BitOrEq", "BitXor",
       "BitXorEq", "BitNot", "LogicalAnd", "LogicalOr", "LogicalNot", "Eq",
       "NotEq", "Gt", "Ge", "Lt", "Le", "Assign", "ReturnType", "MatchCase",
       "If", "Else", "Match", "While", "For", "Break", "Continue", "Return",
       "Fn", "Let", "Var", "Struct", "Enum", "Union", "Pub", "Prv", "Mod",
       "Module", "Import", "Use" >>

\* TOKEN_TYPES_STR.len()
KeywordCount == Len(TOKEN_TYPES_STR)

\* The strings of the table, and the (1-based) positions of a string in it.
KeywordStrings == { TOKEN_TYPES_STR[i] : i \in 1..KeywordCount }
TablePositions(s) == { i \in 1..KeywordCount : TOKEN_TYPES_STR[i] = s }

-----------------------------------------------------------------------------
(* Option and HashMap helpers.                                             *)

None == {}
Some(v) == {v}
Unwrap(o) == CHOOSE v \in o : TRUE

EmptyMap == [k \in {} |-> 0]
\* HashMap::insert: a present key is overwritten.
MapInsert(m, k, v) == [x \in DOMAIN m \cup {k} |-> IF x = k THEN v ELSE m[x]]

-----------------------------------------------------------------------------
(* Pure functions of the intern pool.                                      *)

\* is_keyword(id): id.0 < TOKEN_TYPES_STR.len()
is_keyword_off_by_one(id) == id <= KeywordCount
is_keyword(id) == id < KeywordCount

\* get_keyword(id): panics ("Not a keyword") unless is_keyword(id).
get_keyword_shifted(id) ==
    IF ~is_keyword(id) THEN [panic |-> TRUE, kind |-> "None"]
    ELSE [panic |-> FALSE, kind |-> TOKEN_TYPES_ENUM[((id + 1) % KeywordCount) + 1]]
get_keyword(id) ==
    IF ~is_keyword(id) THEN [panic |-> TRUE, kind |-> "None"]
    ELSE [panic |-> FALSE, kind |-> TOKEN_TYPES_ENUM[id + 1]]

\* InternPool::new(): the loop puts the i-th table string under the running
\* counter i and increments it.  HashMap::insert overwrites, so that a string
\* standing at several places of the table would keep the id of the last one.
LastPosition(s) == CHOOSE i \in TablePositions(s) : \A j \in TablePositions(s) : j <= i
InternPoolNewSkipFirst ==
    [pool |-> [s \in KeywordStrings |-> LastPosition(s)], counter |-> KeywordCount + 1]
InternPoolNew ==
    [pool |-> [s \in KeywordStrings |-> LastPosition(s) - 1], counter |-> KeywordCount]

\* The body of insert_symbol / insert_path after the debug assertion: the
\* existing id of a present key, otherwise the counter, which is handed out,
\* stored and incremented.
InternInsertAlwaysFresh(pool, counter, key) ==
    [pool |-> MapInsert(pool, key, counter), counter |-> counter + 1,
     id |-> counter]
InternInsertNoIncrement(pool, counter, key) ==
    IF key \in DOMAIN pool
    THEN [pool |-> pool, counter |-> counter, id |-> pool[key]]
    ELSE [pool |-> MapInsert(pool, key, counter), counter |-> counter,
          id |-> counter]
InternInsert(pool, counter, key) ==
    IF key \in DOMAIN pool
    THEN [pool |-> pool, counter |-> counter, id |-> pool[key]]
    ELSE [pool |-> MapInsert(pool, key, counter), counter |-> counter + 1,
          id |-> counter]

\* The body of search_symbol after the debug assertion.
InternSearch(pool, key) ==
    IF key \in DOMAIN pool THEN Some(pool[key]) ELSE None

\* The tables that one half of reverse() can build: a vector of `counter`
\* empty values in which every (key, id) of the pool is stored at index id.
\* The HashMap is iterated in an arbitrary order, so that of two keys with
\* one id either may be the one that stays.
RECURSIVE ReverseTables(_, _, _)
ReverseTables(pool, n, empty) ==
    IF n = 0 THEN { <<>> }
    ELSE LET here == { k \in DOMAIN pool : pool[k] = n - 1 }
             cand == IF here = {} THEN {empty} ELSE here
         IN { Append(r, k) : r \in ReverseTables(pool, n - 1, empty), k \in cand }

\* reverse[id.0] = sym is out of bounds for an id that is not below the counter.
ReverseOutOfBounds(pool, counter) == \E k \in DOMAIN pool : pool[k] >= counter

\* The lookup after reverse(): Some(rev[id]) if id.0 < rev.len(), else None.
ReverseGet(rev, id) == IF id < Len(rev) THEN Some(rev[id + 1]) ELSE None

-----------------------------------------------------------------------------
(* Characters.  A char is a one-character string; a char that cannot      *)
(* stand in a string of this language is written by its code point: the   *)
(* grave accent "U+60", the letter e with acute "U+E9", NUL and DEL.      *)

AsciiDigits == { "0", "1", "2", "3", "4", "5", "6", "7", "8", "9" }
AsciiLower ==
    { "a", "b", "c", "d", "e", "f", "g", "h", "i", "j", "k", "l", "m", "n",
      "o", "p", "q", "r", "s", "t", "u", "v", "w", "x", "y", "z" }
AsciiUpper ==
    { "A", "B", "C", "D", "E", "F", "G", "H", "I", "J", "K", "L", "M", "N",
      "O", "P", "Q", "R", "S", "T", "U", "V", "W", "X", "Y", "Z" }
AsciiPunctuation ==
    { "!", "\"", "#", "$", "%", "&", "'", "(", ")", "*", "+", ",", "-", ".",
      "/", ":", ";", "<", "=", ">", "?", "@", "[", "\\", "]", "^", "_",
      "U+60", "{", "|", "}", "~" }
\* A letter outside ASCII, for which char::is_alphabetic holds too.
OtherAlphabetic == { "U+E9" }
HexDigitsLower ==
    << "0", "1", "2", "3", "4", "5", "6", "7", "8", "9", "a", "b", "c", "d", "e", "f" >>
HexDigitsUpper ==
    << "0", "1", "2", "3", "4", "5", "6", "7", "8", "9", "A", "B", "C", "D", "E", "F" >>

\* char::is_ascii_digit, is_ascii_hexdigit, is_ascii_punctuation
is_ascii_digit(ch) == ch \in AsciiDigits
is_ascii_hexdigit(ch) ==
    \E i \in 1 .. Len(HexDigitsLower) : ch = HexDigitsLower[i] \/ ch = HexDigitsUpper[i]
is_ascii_punctuation(ch) == ch \in AsciiPunctuation
\* char::is_alphabetic, is_alphanumeric (Unicode), is_whitespace, is_control
is_alphabetic(ch) == ch \in AsciiLower \cup AsciiUpper \cup OtherAlphabetic
is_alphanumeric(ch) == is_alphabetic(ch) \/ ch \in AsciiDigits
is_whitespace(ch) == ch \in { " ", "\t", "\n", "\r" }
is_control(ch) == ch \in { "\t", "\n", "\r", "U+0", "U+7F" }

\* char::to_digit(radix): the digit's value when it is a digit of the radix.
to_digit(ch, radix) ==
    { i - 1 : i \in { j \in 1 .. Len(HexDigitsLower) :
                        /\ ch = HexDigitsLower[j] \/ ch = HexDigitsUpper[j]
                        /\ j - 1 < radix } }

\* The chars of u8 values and back, for the escapes: the printable ASCII
\* chars of the model's alphabet, the named control chars, "U+<n>" otherwise.
CodePoints ==
    [ c \in { "\t", "\n", "\r", " ", "\"", "0", "1", "A", "a", "\\", "U+E9" } |->
        CASE c = "\t" -> 9 [] c = "\n" -> 10 [] c = "\r" -> 13 [] c = " " -> 32
          [] c = "\"" -> 34 [] c = "0" -> 48 [] c = "1" -> 49 [] c = "A" -> 65
          [] c = "a" -> 97 [] c = "\\" -> 92 [] c = "U+E9" -> 233 ]
CharOf(cp) ==
    IF \E c \in DOMAIN CodePoints : CodePoints[c] = cp
    THEN CHOOSE c \in DOMAIN CodePoints : CodePoints[c] = cp
    ELSE "U+" \o ToString(cp)

\* String::from_iter / push: the chars of a sequence joined into one string.
RECURSIVE Collect(_)
Collect(chars) == IF chars = <<>> THEN "" ELSE Head(chars) \o Collect(Tail(chars))

-----------------------------------------------------------------------------
(* Integers.  u64 and i64 are scaled down to IntBits bits, so that the     *)
(* model checker's integers hold every value the arithmetic can reach.     *)

IntBits == 8
U64_MAX == 2 ^ IntBits - 1
I64_MAX == 2 ^ (IntBits - 1) - 1
I64_MIN == - (2 ^ (IntBits - 1))
\* The largest Unicode scalar value (char::MAX) and the surrogate range.
CHAR_MAX == 1114111
SURROGATE_MIN == 55296
SURROGATE_MAX == 57343

\* u64::checked_mul, u64::checked_add
checked_mul(a, b) == IF a * b > U64_MAX THEN None ELSE Some(a * b)
checked_add(a, b) == IF a + b > U64_MAX THEN None ELSE Some(a + b)

\* <unsigned>::from_str_radix(digits, radix) with the type's maximum `max`:
\* an optional leading "+", then one or more digits of the radix; None for
\* an empty string, a char that is no digit of the radix, or an overflow.
RECURSIVE ParseDigits(_, _, _, _)
ParseDigits(digits, radix, max, acc) ==
    IF digits = <<>> THEN Some(acc)
    ELSE LET d == to_digit(Head(digits), radix)
         IN IF d = None THEN None
            ELSE IF acc * radix + Unwrap(d) > max THEN None
            ELSE ParseDigits(Tail(digits), radix, max, acc * radix + Unwrap(d))
from_str_radix(digits, radix, max) ==
    LET body == IF digits # <<>> /\ Head(digits) = "+" THEN Tail(digits) ELSE digits
    IN IF body = <<>> THEN None ELSE ParseDigits(body, radix, max, 0)

-----------------------------------------------------------------------------
(* The lexer.  A Lexer value is a record with the fields of struct Lexer;  *)
(* the functions below take it and return the lexer they leave.            *)

NewLexer(path, text) ==
    [ path |-> path, input |-> text, index |-> 0, line |-> 1, column |-> 1,
      start_index |-> 0, start_line |-> 1, start_column |-> 1 ]

\* Token values.
Keyword(kind) == [kind |-> "Keyword", v |-> kind]
Identifier(id) == [kind |-> "Identifier", v |-> id]
LiteralUInt(n) == [kind |-> "UInt", v |-> n]
LiteralInt(n) == [kind |-> "Int", v |-> n]
\* (number as f64) + fraction, negated when negative: kept as its parts.
LiteralFloat(negative, number, fraction) ==
    [kind |-> "Float", v |-> <<negative, number, fraction>>]
LiteralString(chars) == [kind |-> "String", v |-> chars]
NoValue == [kind |-> "None", v |-> 0]

start_token(l) ==
    [l EXCEPT !.start_index = l.index, !.start_line = l.line, !.start_column = l.column]

end_token(l) ==
    [ path |-> l.path, line |-> l.start_line, column |-> l.start_column,
      index |-> l.start_index, size |-> l.index - l.start_index ]

\* No Error: the span is a placeholder.
NoError == [typ |-> "None", span |-> end_token(NewLexer(0, <<>>))]

peek(l) == IF l.index < Len(l.input) THEN Some(l.input[l.index + 1]) ELSE None
peek2(l) == IF l.index + 1 < Len(l.input) THEN Some(l.input[l.index + 2]) ELSE None

error(l, typ) == [typ |-> typ, span |-> end_token(l)]

advance_same_line(l) ==
    IF peek(l) = None THEN l
    ELSE [l EXCEPT !.index = l.index + 1, !.column = l.column + 1]
advance(l) ==
    IF peek(l) = None THEN l
    ELSE IF Unwrap(peek(l)) = "\n"
         THEN [l EXCEPT !.index = l.index + 1, !.line = l.line + 1, !.column = 1]
         ELSE [l EXCEPT !.index = l.index + 1, !.column = l.column + 1]

\* Result<TokenValue, Error> together with the lexer left behind; "panic"
\* is a panic of the thread.
Ok(value, l) == [res |-> "ok", value |-> value, error |-> NoError, lexer |-> l]
Err(typ, l) == [res |-> "err", value |-> NoValue, error |-> error(l, typ), lexer |-> l]
Panic(l) == [res |-> "panic", value |-> NoValue, error |-> NoError, lexer |-> l]

\* skip.rs
RECURSIVE skip_whitespace(_, _)
skip_whitespace(l, found) ==
    IF peek(l) # None /\ is_whitespace(Unwrap(peek(l)))
    THEN skip_whitespace(advance(l), TRUE)
    ELSE [lexer |-> l, found |-> found]

RECURSIVE skip_to_line_end(_)
skip_to_line_end(l) ==
    IF peek(l) = None THEN l
    ELSE IF Unwrap(peek(l)) = "\n" THEN advance(l)
    ELSE skip_to_line_end(advance(l))

skip_comment(l) ==
    IF peek(l) = Some("/") /\ peek2(l) = Some("/")
    THEN [lexer |-> skip_to_line_end(l), found |-> TRUE]
    ELSE [lexer |-> l, found |-> FALSE]

RECURSIVE skip_whitespace_and_comments(_)
skip_whitespace_and_comments(l) ==
    LET w == skip_whitespace(l, FALSE)
    IN IF w.found THEN skip_whitespace_and_comments(w.lexer)
       ELSE LET c == skip_comment(l)
            IN IF c.found THEN skip_whitespace_and_comments(c.lexer) ELSE l

-----------------------------------------------------------------------------
(* The calls of the pool API.                                              *)

\* What the callers pass: an identifier, the empty string, a table string;
\* paths (PathBuf::new() is the empty path); the first and the last keyword
\* id and every id from there to past the last id that can be in use.
Symbols == { "x", "", "let" }
Paths == { "", "/m" }
SymbolIds == { 0, KeywordCount - 1 } \cup (KeywordCount .. (KeywordCount + Cardinality(Symbols)))
PathIds == 0 .. Cardinality(Paths)

\* The inserts and searches after the freeze that the model follows.
MaxLateCalls == 1

Frozen == symbol_reverse # None \/ path_reverse # None

\* A call of insert_* / search_* is counted when it comes after the freeze.
CountCall ==
    /\ Frozen => late_calls < MaxLateCalls
    /\ late_calls' = IF Frozen THEN late_calls + 1 ELSE late_calls

Returned(op, arg, val) == [op |-> op, arg |-> arg, val |-> val, panic |-> FALSE]
Panicked(op, arg) == [op |-> op, arg |-> arg, val |-> None, panic |-> TRUE]

\* std::debug_assert!(cond): checked in a build with debug assertions only.
DebugAssertFails(cond) == debug_build /\ ~cond

Record(hist, key, id) == IF key \in DOMAIN hist THEN hist ELSE MapInsert(hist, key, id)

insert_symbol(token) ==
    /\ ~panicked
    /\ CountCall
    /\ IF DebugAssertFails(symbol_reverse = None)
       THEN /\ panicked' = TRUE
            /\ ret' = Panicked("insert_symbol", token)
            /\ UNCHANGED <<poolVars, hist_symbol, hist_path, frozen_counter>>
       ELSE LET r == InternInsert(symbol_pool, symbol_counter, token)
            IN /\ symbol_pool' = r.pool
               /\ symbol_counter' = r.counter
               /\ ret' = Returned("insert_symbol", token, Some(r.id))
               /\ hist_symbol' = IF Frozen THEN hist_symbol
                                 ELSE Record(hist_symbol, token, r.id)
               /\ UNCHANGED <<symbol_reverse, path_counter, path_pool,
                              path_reverse, panicked, hist_path, frozen_counter>>
    /\ UNCHANGED <<loadVars, debug_build, lexVars, parseVars>>

insert_path(path) ==
    /\ ~panicked
    /\ CountCall
    /\ IF DebugAssertFails(path_reverse = None)
       THEN /\ panicked' = TRUE
            /\ ret' = Panicked("insert_path", path)
            /\ UNCHANGED <<poolVars, hist_symbol, hist_path, frozen_counter>>
       ELSE LET r == InternInsert(path_pool, path_counter, path)
            IN /\ path_pool' = r.pool
               /\ path_counter' = r.counter
               /\ ret' = Returned("insert_path", path, Some(r.id))
               /\ hist_path' = IF Frozen THEN hist_path
                               ELSE Record(hist_path, path, r.id)
               /\ UNCHANGED <<symbol_reverse, symbol_counter, symbol_pool,
                              path_reverse, panicked, hist_symbol, frozen_counter>>
    /\ UNCHANGED <<loadVars, debug_build, lexVars, parseVars>>

search_symbol(token) ==
    /\ ~panicked
    /\ CountCall
    /\ IF DebugAssertFails(symbol_reverse = None)
       THEN /\ panicked' = TRUE
            /\ ret' = Panicked("search_symbol", token)
       ELSE /\ ret' = Returned("search_symbol", token, InternSearch(symbol_pool, token))
            /\ UNCHANGED panicked
    /\ UNCHANGED <<loadVars, debug_build, poolVars, hist_symbol, hist_path, frozen_counter,
                   lexVars, parseVars>>

\* The pools that reverse() can leave: a half whose table is None gets its
\* table built and its map taken (left empty); a half that has a table is
\* left alone.  oob: an index out of bounds while building (a panic).
reverse_rebuilding ==
    { [symbol_pool |-> EmptyMap, symbol_reverse |-> Some(sr),
       path_pool |-> EmptyMap, path_reverse |-> Some(pr),
       oob |-> ReverseOutOfBounds(symbol_pool, symbol_counter)
               \/ ReverseOutOfBounds(path_pool, path_counter)] :
        sr \in ReverseTables(symbol_pool, symbol_counter, ""),
        pr \in ReverseTables(path_pool, path_counter, "") }
reverse_symbols_only ==
    { [symbol_pool |-> IF symbol_reverse = None THEN EmptyMap ELSE symbol_pool,
       symbol_reverse |-> IF symbol_reverse = None THEN Some(sr) ELSE symbol_reverse,
       path_pool |-> path_pool,
       path_reverse |-> path_reverse,
       oob |-> symbol_reverse = None /\ ReverseOutOfBounds(symbol_pool, symbol_counter)] :
        sr \in IF symbol_reverse = None
                THEN ReverseTables(symbol_pool, symbol_counter, "")
                ELSE symbol_reverse }
reverse ==
    { [symbol_pool |-> IF symbol_reverse = None THEN EmptyMap ELSE symbol_pool,
       symbol_reverse |-> IF symbol_reverse = None THEN Some(sr) ELSE symbol_reverse,
       path_pool |-> IF path_reverse = None THEN EmptyMap ELSE path_pool,
       path_reverse |-> IF path_reverse = None THEN Some(pr) ELSE path_reverse,
       oob |-> \/ symbol_reverse = None /\ ReverseOutOfBounds(symbol_pool, symbol_counter)
               \/ path_reverse = None /\ ReverseOutOfBounds(path_pool, path_counter)] :
        sr \in IF symbol_reverse = None
                THEN ReverseTables(symbol_pool, symbol_counter, "")
                ELSE symbol_reverse,
        pr \in IF path_reverse = None
                THEN ReverseTables(path_pool, path_counter, "")
                ELSE path_reverse }

\* The part symbol_reverse_lookup and path_reverse_lookup share: self.reverse().
Reversed(r) ==
    /\ symbol_pool' = r.symbol_pool
    /\ symbol_reverse' = r.symbol_reverse
    /\ path_pool' = r.path_pool
    /\ path_reverse' = r.path_reverse
    /\ frozen_counter' = IF Frozen THEN frozen_counter
                         ELSE Some(<<symbol_counter, path_counter>>)
    /\ UNCHANGED <<loadVars, debug_build, symbol_counter, path_counter, hist_symbol,
                   hist_path, late_calls, lexVars, parseVars>>

symbol_reverse_lookup(id) ==
    /\ ~panicked
    /\ \E r \in reverse :
          /\ Reversed(r)
          /\ IF r.oob \/ r.symbol_reverse = None
             THEN /\ panicked' = TRUE
                  /\ ret' = Panicked("symbol_reverse_lookup", id)
             ELSE /\ ret' = Returned("symbol_reverse_lookup", id,
                                     ReverseGet(Unwrap(r.symbol_reverse), id))
                  /\ UNCHANGED panicked

path_reverse_lookup(id) ==
    /\ ~panicked
    /\ \E r \in reverse :
          /\ Reversed(r)
          /\ IF r.oob \/ r.path_reverse = None
             THEN /\ panicked' = TRUE
                  /\ ret' = Panicked("path_reverse_lookup", id)
             ELSE /\ ret' = Returned("path_reverse_lookup", id,
                                     ReverseGet(Unwrap(r.path_reverse), id))
                  /\ UNCHANGED panicked

-----------------------------------------------------------------------------
(* The token readers of the lexer.                                         *)

\* Arithmetic overflow panics in a build with overflow checks (the default
\* of the dev profile) and wraps in a build without.
OverflowChecks == debug_build

\* identifier.rs: the chars of the word, while alphanumeric or '_'.
RECURSIVE collect_word(_, _)
collect_word(l, acc) ==
    IF peek(l) # None /\ (is_alphanumeric(Unwrap(peek(l))) \/ Unwrap(peek(l)) = "_")
    THEN collect_word(advance(l), Append(acc, Unwrap(peek(l))))
    ELSE [lexer |-> l, chars |-> acc]

\* What read_identifier makes of the interned id.
classify_always_identifier(id) == Identifier(id)
classify(id) ==
    IF is_keyword(id) THEN Keyword(get_keyword(id).kind) ELSE Identifier(id)

\* read_identifier: the result, and the pool and counter the insert leaves.
\* The insert is that of the pool the lexer is given (insert_symbol, under
\* its older name `insert`), with its debug_assert on the phase.
read_identifier(l) ==
    LET w == collect_word(l, <<>>)
        ins == InternInsert(symbol_pool, symbol_counter, Collect(w.chars))
    IN IF DebugAssertFails(symbol_reverse = None)
       THEN [r |-> Panic(w.lexer), pool |-> symbol_pool, counter |-> symbol_counter,
             word |-> Collect(w.chars), id |-> None]
       ELSE [r |-> Ok(classify(ins.id), w.lexer), pool |-> ins.pool,
             counter |-> ins.counter, word |-> Collect(w.chars), id |-> Some(ins.id)]

\* number.rs, collect_digits: one step of the accumulation,
\* number.checked_mul(10).and_then(|n| n.checked_add(digit)).
accumulate_wrapping(number, digit) == Some((number * 10 + digit) % (2 ^ IntBits))
accumulate(number, digit) ==
    LET m == checked_mul(number, 10)
    IN IF m = None THEN None ELSE checked_add(Unwrap(m), digit)

RECURSIVE collect_digits(_, _, _)
collect_digits(l, number, found) ==
    IF peek(l) = None \/ ~is_ascii_digit(Unwrap(peek(l)))
    THEN [ok |-> found, number |-> number, lexer |-> l]
    ELSE LET n == accumulate(number, Unwrap(to_digit(Unwrap(peek(l)), 10)))
         IN IF n = None THEN [ok |-> FALSE, number |-> number, lexer |-> l]
            ELSE collect_digits(advance(l), Unwrap(n), TRUE)

RECURSIVE collect_fraction(_, _, _)
collect_fraction(l, fraction, found) ==
    IF peek(l) = None \/ ~is_ascii_digit(Unwrap(peek(l)))
    THEN [ok |-> found, fraction |-> fraction, lexer |-> l]
    ELSE collect_fraction(advance(l),
                          Append(fraction, Unwrap(to_digit(Unwrap(peek(l)), 10))), TRUE)

\* make_integer.  `number - 1` is a u64 subtraction and `-(number as i64)`
\* an i64 negation of the wrapping cast: each overflows for one value.
make_integer(l, number, negative) ==
    IF ~negative THEN Ok(LiteralUInt(number), l)
    ELSE IF number = 0 /\ OverflowChecks THEN Panic(l)
    ELSE LET pred == IF number = 0 THEN U64_MAX ELSE number - 1
             cast == IF number > I64_MAX THEN number - 2 ^ IntBits ELSE number
         IN IF pred > I64_MAX THEN Err("InvalidNumber", l)
            ELSE IF cast = I64_MIN
                 THEN IF OverflowChecks THEN Panic(l) ELSE Ok(LiteralInt(I64_MIN), l)
                 ELSE Ok(LiteralInt(- cast), l)

consume_negative_sign(l) ==
    IF Unwrap(peek(l)) = "-"
    THEN [lexer |-> advance(l), negative |-> TRUE]
    ELSE [lexer |-> l, negative |-> FALSE]

read_decimal_or_float_number(l) ==
    LET s == consume_negative_sign(l)
        d == collect_digits(s.lexer, 0, FALSE)
    IN IF ~d.ok THEN Err("InvalidNumber", d.lexer)
       ELSE IF peek(d.lexer) # Some(".") THEN make_integer(d.lexer, d.number, s.negative)
       ELSE LET f == collect_fraction(advance(d.lexer), <<>>, FALSE)
            IN IF ~f.ok THEN Err("InvalidNumber", f.lexer)
               ELSE Ok(LiteralFloat(s.negative, d.number, f.fraction), f.lexer)

\* The digits that read_hexadecimal_number / read_binary_number collect.
RECURSIVE collect_while(_, _, _)
collect_while(l, acc, radix) ==
    IF peek(l) # None /\ to_digit(Unwrap(peek(l)), radix) # None
    THEN collect_while(advance(l), Append(acc, Unwrap(peek(l))), radix)
    ELSE [lexer |-> l, chars |-> acc]

read_radix_number(l, radix) ==
    LET c == collect_while(advance(advance(l)), <<>>, radix)
        value == from_str_radix(c.chars, radix, U64_MAX)
    IN IF c.chars = <<>> THEN Err("InvalidNumber", c.lexer)
       ELSE IF value # None THEN Ok(LiteralUInt(Unwrap(value)), c.lexer)
       ELSE Err("InvalidNumber", c.lexer)

read_hexadecimal_number(l) == read_radix_number(l, 16)
read_binary_number(l) == read_radix_number(l, 2)

read_number(l) ==
    IF Unwrap(peek(l)) = "0" /\ peek2(l) # None
    THEN IF peek2(l) \in { Some("x"), Some("X") } THEN read_hexadecimal_number(l)
         ELSE IF peek2(l) \in { Some("b"), Some("B") } THEN read_binary_number(l)
         ELSE read_decimal_or_float_number(l)
    ELSE read_decimal_or_float_number(l)

\* punctuator.rs: the loop over the punctuation chars at index + i while the
\* string read so far is in the pool (pool.search is search_symbol); kw is
\* the last keyword met, at kw_i.
RECURSIVE punctuator_walk_first(_, _, _, _, _)
punctuator_walk_first(l, i, punc, kw, kw_i) ==
    IF l.index + i < Len(l.input) /\ is_ascii_punctuation(l.input[l.index + i + 1])
    THEN LET s == punc \o l.input[l.index + i + 1]
             id == InternSearch(symbol_pool, s)
         IN IF id # None
            THEN IF is_keyword(Unwrap(id)) /\ kw = None
                 THEN punctuator_walk_first(l, i + 1, s, Some(get_keyword(Unwrap(id)).kind), i)
                 ELSE punctuator_walk_first(l, i + 1, s, kw, kw_i)
            ELSE [kw |-> kw, kw_i |-> kw_i]
    ELSE [kw |-> kw, kw_i |-> kw_i]
RECURSIVE punctuator_walk(_, _, _, _, _)
punctuator_walk(l, i, punc, kw, kw_i) ==
    IF l.index + i < Len(l.input) /\ is_ascii_punctuation(l.input[l.index + i + 1])
    THEN LET s == punc \o l.input[l.index + i + 1]
             id == InternSearch(symbol_pool, s)
         IN IF id # None
            THEN IF is_keyword(Unwrap(id))
                 THEN punctuator_walk(l, i + 1, s, Some(get_keyword(Unwrap(id)).kind), i)
                 ELSE punctuator_walk(l, i + 1, s, kw, kw_i)
            ELSE [kw |-> kw, kw_i |-> kw_i]
    ELSE [kw |-> kw, kw_i |-> kw_i]

read_punctuator(l) ==
    IF DebugAssertFails(symbol_reverse = None) THEN Panic(l)
    ELSE LET w == punctuator_walk(l, 0, "", None, 0)
         IN IF w.kw # None
            THEN Ok(Keyword(Unwrap(w.kw)),
                    [l EXCEPT !.index = l.index + w.kw_i + 1,
                              !.column = l.column + w.kw_i + 1])
            ELSE Err("UnknownCharacter", l)

\* string.rs.  An escape reader returns the char or the error.
CharOk(ch, l) == [ok |-> TRUE, ch |-> ch, lexer |-> l]
CharErr(l) == [ok |-> FALSE, ch |-> "", lexer |-> l]

read_hexidecimal_escape_sequence(l) ==
    IF peek(l) # None /\ peek2(l) # None
    THEN LET byte == from_str_radix(<<Unwrap(peek(l)), Unwrap(peek2(l))>>, 16, 255)
         IN IF byte # None THEN CharOk(CharOf(Unwrap(byte)), advance(advance(l)))
            ELSE CharErr(l)
    ELSE CharErr(l)

\* The loop of read_unicode_escape_sequence: to the '}' or to a char that is
\* no hex digit.
RECURSIVE skip_hex_digits(_)
skip_hex_digits(l) ==
    IF peek(l) # None /\ Unwrap(peek(l)) # "}" /\ is_ascii_hexdigit(Unwrap(peek(l)))
    THEN skip_hex_digits(advance(l))
    ELSE l

\* char::from_u32(u32::from_str_radix(hex_str, 16)): a code point above
\* char::MAX is rejected by the one or by the other.
scalar_value(hex_str) ==
    LET cp == from_str_radix(hex_str, 16, CHAR_MAX)
    IN IF cp = None THEN None
       ELSE IF Unwrap(cp) >= SURROGATE_MIN /\ Unwrap(cp) <= SURROGATE_MAX THEN None
       ELSE cp

read_unicode_escape_sequence(l) ==
    IF peek(l) # Some("{") THEN CharErr(l)
    ELSE LET e == skip_hex_digits(advance(l))
         IN IF peek(e) # Some("}") THEN CharErr(e)
            ELSE LET hex_str == SubSeq(e.input, e.start_index + 3, e.index)
                     cp == scalar_value(hex_str)
                 IN IF cp # None THEN CharOk(CharOf(Unwrap(cp)), advance(e))
                    ELSE CharErr(advance(e))

read_escape_sequence(l) ==
    IF peek(l) = None THEN CharErr(l)
    ELSE LET ch == Unwrap(peek(l))
             a == advance(l)
         IN CASE ch = "n" -> CharOk("\n", a)
              [] ch = "t" -> CharOk("\t", a)
              [] ch = "r" -> CharOk("\r", a)
              [] ch = "\\" -> CharOk("\\", a)
              [] ch = "\"" -> CharOk("\"", a)
              [] ch = "x" -> read_hexidecimal_escape_sequence(a)
              [] ch = "u" -> read_unicode_escape_sequence(a)
              [] OTHER -> CharErr(a)

RECURSIVE read_string_content(_, _)
read_string_content(l, content) ==
    IF peek(l) = None THEN Err("UnclosedString", l)
    ELSE LET ch == Unwrap(peek(l))
         IN IF ch = "\\"
            THEN LET e == read_escape_sequence(advance(l))
                 IN IF e.ok THEN read_string_content(e.lexer, Append(content, e.ch))
                    ELSE Err("InvalidEscapeSequence", e.lexer)
            ELSE IF ch = "\"" THEN Ok(LiteralString(content), advance(l))
            ELSE IF ch = "\n" THEN Err("UnclosedString", l)
            ELSE IF is_control(ch) THEN Err("InvalidEscapeSequence", l)
            ELSE read_string_content(advance(l), Append(content, ch))

read_string(l) == read_string_content(advance(l), <<>>)

\* utils.rs, next_token_value: the dispatch on the first char.  The result
\* carries the pool and the counter that the reader leaves.
Unchanged(r) == [r |-> r, pool |-> symbol_pool, counter |-> symbol_counter,
                 word |-> "", id |-> None]

next_token_value(l) ==
    LET ch == Unwrap(peek(l))
    IN IF is_alphabetic(ch) \/ ch = "_" THEN read_identifier(l)
       ELSE IF ch = "\"" THEN Unchanged(read_string(l))
       ELSE IF is_ascii_punctuation(ch)
            THEN IF ch = "-" /\ peek2(l) # None /\ is_ascii_digit(Unwrap(peek2(l)))
                 THEN Unchanged(read_number(l))
                 ELSE Unchanged(read_punctuator(l))
       ELSE IF is_ascii_digit(ch) THEN Unchanged(read_number(l))
       ELSE Unchanged(Err("UnknownCharacter", l))

-----------------------------------------------------------------------------
(* Spans.  '-' merges two spans (span.rs, token.rs).                       *)

\* usize subtraction in a build without overflow checks.
usize_wrapping_sub(a, b) == (a - b) % (U64_MAX + 1)

\* impl Sub for Span: None is the panic of a failing debug_assert!.
Span_sub(self, other) ==
    IF DebugAssertFails(self.index + self.size >= other.index)
       \/ DebugAssertFails(self.path = other.path)
    THEN None
    ELSE Some([ path |-> self.path, line |-> self.line, column |-> self.column,
                index |-> self.index,
                size |-> usize_wrapping_sub(self.index + self.size, other.index) ])

\* impl Sub for TokenSpan.
TokenSpan_sub(self, other) ==
    IF DebugAssertFails(self.index + self.size >= other.index)
    THEN None
    ELSE Some([ line |-> self.line, column |-> self.column, index |-> self.index,
                size |-> usize_wrapping_sub(self.index + self.size, other.index) ])

-----------------------------------------------------------------------------
(* The syntactic parser.  A SyntacticParser value is a record with the     *)
(* fields of the struct; the functions below take it and return, with      *)
(* their Result, the parser they leave.                                    *)

\* 'let name = expr; body', the expression evaluated once: the body is
\* written as a function of the name, With([name \in { expr } |-> body]).
With(f) == f[CHOOSE name \in DOMAIN f : TRUE]

NewParser(toks) == [tokens |-> toks, index |-> 0]

\* Result<T, Error> together with the parser left behind; "panic" is a
\* panic of the thread.
NoNode == [kind |-> "None"]
NoParseError == [typ |-> "None", msg |-> "", token |-> None]
parser_peek(p) ==
    IF p.index < Len(p.tokens) THEN Some(p.tokens[p.index + 1]) ELSE None
\* self.tokens[self.index - 1]: None is the panic of the index out of bounds.
back(p) ==
    IF p.index >= 1 /\ p.index - 1 < Len(p.tokens) THEN Some(p.tokens[p.index])
    ELSE None
parser_error(p, error_type, message) ==
    [typ |-> error_type, msg |-> message, token |-> parser_peek(p)]
Parsed(value, p) ==
    [res |-> "ok", value |-> value, error |-> NoParseError, parser |-> p]
Failed(error_type, message, p) ==
    [res |-> "err", value |-> NoNode, error |-> parser_error(p, error_type, message),
     parser |-> p]
Aborted(p) ==
    [res |-> "panic", value |-> NoNode, error |-> NoParseError, parser |-> p]

\* A node with the span 'self - other', or the panic of the '-'.
Spanned(self, other, node, p) ==
    IF self = None \/ other = None THEN Aborted(p)
    ELSE LET span == TokenSpan_sub(Unwrap(self).span, Unwrap(other).span)
         IN IF span = None THEN Aborted(p)
            ELSE Parsed([value |-> node, span |-> Unwrap(span)], p)

expect_token(p, error_type, message) ==
    IF parser_peek(p) = None THEN Failed(error_type, message, p)
    ELSE Parsed(Unwrap(parser_peek(p)), p)

is_identifier(p) ==
    IF parser_peek(p) = None THEN None
    ELSE IF Unwrap(parser_peek(p)).value.kind = "Identifier"
         THEN Some(Unwrap(parser_peek(p)).value.v)
         ELSE None

expect_identifier(p, error_type, message) ==
    IF is_identifier(p) = None THEN Failed(error_type, message, p)
    ELSE Parsed(Unwrap(is_identifier(p)), p)

parser_is_keyword(p, keyword) ==
    /\ parser_peek(p) # None
    /\ Unwrap(parser_peek(p)).value.kind = "Keyword"
    /\ Unwrap(parser_peek(p)).value.v = keyword

expect_keyword(p, kw, error_type, message) ==
    IF ~parser_is_keyword(p, kw) THEN Failed(error_type, message, p)
    ELSE Parsed(NoNode, p)

parser_advance(p) == [p EXCEPT !.index = p.index + 1]

end_line(p) ==
    IF ~parser_is_keyword(p, "Semicolon")
    THEN Failed("LineEnd", "';' expected at end of line", p)
    ELSE Parsed(NoNode, parser_advance(p))

is_mutable(p) ==
    IF parser_is_keyword(p, "Let") THEN Parsed(FALSE, p)
    ELSE IF parser_is_keyword(p, "Var") THEN Parsed(TRUE, p)
    ELSE Failed("TypeAnnotation", "Type annotations must specify mutability", p)

is_uint(p) ==
    IF parser_peek(p) = None THEN None
    ELSE IF Unwrap(parser_peek(p)).value.kind = "UInt"
         THEN Some(Unwrap(parser_peek(p)).value.v)
         ELSE None

\* parse_name: the loop over the '::' segments, then the function.
RECURSIVE parse_name_segments(_, _)
parse_name_segments(p, name) ==
    IF ~parser_is_keyword(p, "DoubleColon") THEN Parsed(name, p)
    ELSE LET q == parser_advance(p)
         IN IF is_identifier(q) = None
            THEN Failed("Expression", "Expected identifier", q)
            ELSE parse_name_segments(parser_advance(q),
                                     Append(name, Unwrap(is_identifier(q))))
parse_name(p) ==
    IF is_identifier(p) = None THEN Aborted(p)
    ELSE parse_name_segments(parser_advance(p), <<Unwrap(is_identifier(p))>>)

-----------------------------------------------------------------------------
(* Expressions (expression.rs).  An Expression is [value, span]; its value *)
(* is a record whose kind is the variant of ExpressionValue.               *)

Binary(op, left, right) ==
    [kind |-> "Binary", op |-> op, left |-> left, right |-> right]
Unary(op, operand) == [kind |-> "Unary", op |-> op, operand |-> operand]
Call(function, args) == [kind |-> "Call", function |-> function, args |-> args]
LiteralExpression(literal) == [kind |-> "Literal", literal |-> literal]
IdentifierExpression(name) == [kind |-> "Identifier", name |-> name]
ArrayLiteral(items) == [kind |-> "Array", v |-> items]
StructLiteral(fields) == [kind |-> "Struct", v |-> fields]

is_postfix_op(punc) == punc \in { "OpenParen", "OpenBrace", "OpenBracket" }

InfixOperators ==
    { <<"Dot", 100, "FieldAccess">>,
      <<"Mul", 90, "Mul">>, <<"Div", 90, "Div">>, <<"Modulo", 90, "Mod">>,
      <<"Plus", 80, "Plus">>, <<"Minus", 80, "Minus">>,
      <<"LeftShift", 70, "LeftShift">>, <<"RightShift", 70, "RightShift">>,
      <<"BitAnd", 60, "BitAnd">>, <<"BitOr", 60, "BitOr">>, <<"BitXor", 60, "BitXor">>,
      <<"Eq", 50, "Eq">>, <<"NotEq", 50, "NotEq">>, <<"Gt", 50, "Gt">>,
      <<"Ge", 50, "Ge">>, <<"Lt", 50, "Lt">>, <<"Le", 50, "Le">>,
      <<"LogicalAnd", 40, "LogicalAnd">>, <<"LogicalOr", 40, "LogicalOr">> }
match_infix_operator(infix) ==
    { [precedence |-> o[2], op |-> o[3]] : o \in { i \in InfixOperators : i[1] = infix } }

UnaryOperators ==
    { <<"Minus", "Negate">>, <<"Mul", "Dereference">>, <<"BitAnd", "AddressOf">>,
      <<"BitNot", "BitNot">>, <<"LogicalNot", "LogicalNot">> }

\* The precedence that the operand of a unary operator is parsed with.
UnaryPrecedence == 100

RECURSIVE pratt_parse(_, _)
RECURSIVE pratt_loop(_, _, _)
RECURSIVE parse_prefix(_)
RECURSIVE parse_postfix(_, _, _)
RECURSIVE parse_paren(_)
RECURSIVE parse_expression_list_loop(_, _, _)
RECURSIVE parse_struct_literal_loop(_, _)
RECURSIVE parse_infix_op(_, _)

parse_expression(p) == pratt_parse(p, 0)

parse_paren(p) ==
    With([r \in { pratt_parse(p, 0) } |->
       IF r.res # "ok" THEN r
       ELSE IF ~parser_is_keyword(r.parser, "CloseParen")
            THEN Failed("Expression", "Unclosed parenthesis", r.parser)
            ELSE Parsed(r.value, parser_advance(r.parser))])

\* One turn of the loop of parse_expression_list, and what follows it.
parse_expression_list_loop(p, end, list) ==
    IF parser_is_keyword(p, end) THEN Parsed(list, parser_advance(p))
    ELSE With([r \in { parse_expression(p) } |->
            IF r.res # "ok" THEN r
            ELSE IF parser_is_keyword(r.parser, end)
                 THEN Parsed(Append(list, r.value), parser_advance(r.parser))
            ELSE IF ~parser_is_keyword(r.parser, "Comma")
                 THEN Failed("Expression", "Expected ','", r.parser)
            ELSE parse_expression_list_loop(parser_advance(r.parser), end,
                                            Append(list, r.value))])
parse_expression_list(p, end) == parse_expression_list_loop(p, end, <<>>)

parse_array_literal(p) ==
    IF back(p) = None THEN Aborted(p)
    ELSE With([r \in { parse_expression_list(p, "CloseBracket") } |->
            IF r.res # "ok" THEN r
            ELSE Spanned(back(r.parser), back(p),
                         LiteralExpression(ArrayLiteral(r.value)), r.parser)])

\* One turn of the loop of parse_struct_literal, and what follows it.
parse_struct_literal_loop(p, fields) ==
    IF parser_is_keyword(p, "CloseBracket") THEN Parsed(fields, parser_advance(p))
    ELSE LET field == expect_identifier(p, "Expression", "Expected field name")
         IN IF field.res # "ok" THEN field
            ELSE LET q == parser_advance(p)
                 IN IF ~parser_is_keyword(q, "Colon")
                    THEN Failed("Expression", "Expected ':'", q)
                    ELSE With([exp \in { parse_expression(parser_advance(q)) } |->
                            IF exp.res # "ok" THEN exp
                            ELSE LET inserted == MapInsert(fields, field.value, exp.value)
                                 IN IF parser_is_keyword(exp.parser, "CloseBracket")
                                    THEN Parsed(inserted, parser_advance(exp.parser))
                                    ELSE IF ~parser_is_keyword(exp.parser, "Comma")
                                    THEN Failed("Expression", "Expected ','", exp.parser)
                                    ELSE parse_struct_literal_loop(exp.parser, inserted)])
parse_struct_literal(p) == parse_struct_literal_loop(p, EmptyMap)

parse_infix_op(p, punc) ==
    IF back(p) = None THEN Aborted(p)
    ELSE LET ops == { o \in UnaryOperators : o[1] = punc }
         IN IF ops = {} THEN Failed("Expression", "Invalid unary operator", p)
            ELSE With([operand \in { pratt_parse(p, UnaryPrecedence) } |->
                    IF operand.res # "ok" THEN operand
                    ELSE Spanned(back(operand.parser), back(p),
                                 Unary(Unwrap(ops)[2], operand.value), operand.parser)])

parse_prefix(p) ==
    LET token == expect_token(p, "Expression", "No expression found")
    IN IF token.res # "ok" THEN token
       ELSE IF token.value.value.kind = "Identifier"
       THEN With([name \in { parse_name(p) } |->
               IF name.res # "ok" THEN name
               ELSE Spanned(Some(token.value), back(name.parser),
                            IdentifierExpression(name.value), name.parser)])
       ELSE IF token.value.value.kind # "Keyword"
       THEN LET q == parser_advance(p)
            IN Spanned(Some(token.value), back(q),
                       LiteralExpression(token.value.value), q)
       ELSE LET q == parser_advance(p)
                punc == token.value.value.v
            IN IF punc = "OpenParen" THEN parse_paren(q)
               ELSE IF punc = "OpenBracket" THEN parse_array_literal(q)
               ELSE parse_infix_op(q, punc)

parse_postfix(p, punc, left) ==
    IF back(p) = None THEN Aborted(p)
    ELSE With([ev \in {
               IF punc = "OpenParen"
               THEN With([args \in { parse_expression_list(p, "CloseParen") } |->
                       IF args.res # "ok" THEN args
                       ELSE Parsed(Call(left, args.value), args.parser)])
               ELSE IF punc = "OpenBrace"
               THEN With([right \in { parse_expression(p) } |->
                       IF right.res # "ok" THEN right
                       ELSE IF ~parser_is_keyword(right.parser, "CloseParen")
                            THEN Failed("Expression", "Expected ']'", right.parser)
                            ELSE Parsed(Binary("Indexing", left, right.value),
                                        parser_advance(right.parser))])
               ELSE IF punc = "OpenBracket"
               THEN With([fields \in { parse_struct_literal(p) } |->
                       IF fields.res # "ok" THEN fields
                       ELSE Parsed(LiteralExpression(StructLiteral(fields.value)),
                                   fields.parser)])
               ELSE Aborted(p) } |->
            IF ev.res # "ok" THEN ev
            ELSE Spanned(back(ev.parser), back(p), ev.value, ev.parser)])

\* One turn of the loop of pratt_parse on the expression parsed so far.
pratt_loop(p, exp, left_precedence) ==
    IF parser_peek(p) = None THEN Parsed(exp, p)
    ELSE LET token == Unwrap(parser_peek(p))
             q == parser_advance(p)
         IN IF token.value.kind # "Keyword"
            THEN Failed("Expression", "Expected an operator", q)
            ELSE IF is_postfix_op(token.value.v)
            THEN With([r \in { parse_postfix(q, token.value.v, exp) } |->
                    IF r.res # "ok" THEN r
                    ELSE pratt_loop(r.parser, r.value, left_precedence)])
            ELSE IF match_infix_operator(token.value.v) = None THEN Parsed(exp, q)
            ELSE LET m == Unwrap(match_infix_operator(token.value.v))
                 IN IF m.precedence < left_precedence THEN Parsed(exp, q)
                    ELSE With([right \in { pratt_parse(parser_advance(q), m.precedence) } |->
                            IF right.res # "ok" THEN right
                            ELSE LET node == Spanned(back(right.parser), Some(token),
                                                     Binary(m.op, exp, right.value),
                                                     right.parser)
                                 IN IF node.res # "ok" THEN node
                                    ELSE pratt_loop(node.parser, node.value,
                                                    left_precedence)])

pratt_parse(p, left_precedence) ==
    With([r \in { parse_prefix(p) } |->
       IF r.res # "ok" THEN r
       ELSE pratt_loop(r.parser, r.value, left_precedence)])

-----------------------------------------------------------------------------
(* Type annotations (type_annotation.rs).                                  *)

TypeModifier(mutable, typ) == [mutable |-> mutable, typ |-> typ]
Pointer == [kind |-> "Pointer", v |-> 0]
Slice == [kind |-> "Slice", v |-> 0]
Array(size) == [kind |-> "Array", v |-> size]
Normal(name) == [kind |-> "Normal", v |-> name]
FunctionSig(args, return_type) ==
    [kind |-> "Function", v |-> [args |-> args, ret |-> return_type]]

parse_pointer(p) ==
    LET mutable == is_mutable(p)
    IN IF mutable.res # "ok" THEN mutable
       ELSE Parsed(TypeModifier(mutable.value, Pointer), parser_advance(p))

parse_array_or_slice(p) ==
    LET q == IF is_uint(p) # None THEN parser_advance(p) ELSE p
    IN IF ~parser_is_keyword(q, "CloseBrace")
       THEN Failed("TypeAnnotation", "Expected ']'", q)
       ELSE LET mutable == is_mutable(parser_advance(q))
            IN IF mutable.res # "ok" THEN mutable
               ELSE Parsed(TypeModifier(mutable.value,
                                        IF is_uint(p) # None
                                        THEN Array(Unwrap(is_uint(p))) ELSE Slice),
                           parser_advance(mutable.parser))

parse_type_modifier(p, keyword) ==
    IF keyword = "Mul" THEN parse_pointer(p)
    ELSE IF keyword = "OpenBrace" THEN parse_array_or_slice(p)
    ELSE Failed("TypeAnnotation", "Expected a type annotation", p)

RECURSIVE parse_type_annotation_loop(_, _, _)
RECURSIVE parse_base(_)
RECURSIVE parse_base_arguments(_, _)

parse_type_annotation(p) == parse_type_annotation_loop(p, parser_peek(p), <<>>)

\* One turn of the loop of parse_type_annotation.
parse_type_annotation_loop(p, start, modifiers) ==
    LET token == expect_token(p, "TypeAnnotation", "Expected a type annotation")
    IN IF token.res # "ok" THEN token
       ELSE IF token.value.value.kind = "Identifier"
       THEN With([base \in { parse_base(p) } |->
               IF base.res # "ok" THEN base
               ELSE IF start = None THEN Aborted(base.parser)
               ELSE LET span == TokenSpan_sub(token.value.span, Unwrap(start).span)
                    IN IF span = None THEN Aborted(base.parser)
                       ELSE Parsed([base |-> base.value, modifiers |-> modifiers,
                                    span |-> Unwrap(span)], base.parser)])
       ELSE IF token.value.value.kind = "Keyword"
       THEN With([modifier \in { parse_type_modifier(parser_advance(p), token.value.value.v) } |->
               IF modifier.res # "ok" THEN modifier
               ELSE parse_type_annotation_loop(modifier.parser, start,
                                               Append(modifiers, modifier.value))])
       ELSE Failed("TypeAnnotation", "Expected a type annotation", p)

\* The loop of parse_base over the argument types, up to the ')'.
parse_base_arguments(p, args) ==
    IF parser_is_keyword(p, "CloseParen") THEN Parsed(args, p)
    ELSE With([arg \in { parse_type_annotation(p) } |->
            IF arg.res # "ok" THEN arg
            ELSE IF ~parser_is_keyword(arg.parser, "Comma")
                 THEN Parsed(Append(args, arg.value), arg.parser)
                 ELSE parse_base_arguments(parser_advance(arg.parser),
                                           Append(args, arg.value))])

parse_base(p) ==
    IF ~parser_is_keyword(p, "Fn")
    THEN With([name \in { parse_name(p) } |->
            IF name.res # "ok" THEN name ELSE Parsed(Normal(name.value), name.parser)])
    ELSE LET q == parser_advance(p)
         IN IF ~parser_is_keyword(q, "OpenParen")
            THEN Failed("TypeAnnotation", "Expected function argument types", q)
            ELSE With([args \in { parse_base_arguments(parser_advance(q), <<>>) } |->
                    IF args.res # "ok" THEN args
                    ELSE IF ~parser_is_keyword(args.parser, "CloseParen")
                    THEN Failed("TypeAnnotation", "Expected ')'", args.parser)
                    ELSE LET r == parser_advance(args.parser)
                         IN IF ~parser_is_keyword(r, "ReturnType")
                            THEN Parsed(FunctionSig(args.value, None), r)
                            ELSE With([return_type \in { parse_type_annotation(parser_advance(r)) } |->
                                    IF return_type.res # "ok" THEN return_type
                                    ELSE Parsed(FunctionSig(args.value,
                                                            Some(return_type.value)),
                                                return_type.parser)])])

-----------------------------------------------------------------------------
(* Declarations (declaration.rs).                                          *)

parse_declaration(p) ==
    IF parser_peek(p) = None THEN Aborted(p)
    ELSE
    LET start == parser_peek(p)
        mutable == is_mutable(p)
    IN IF mutable.res # "ok" THEN mutable
       ELSE
       LET id == expect_identifier(parser_advance(p), "Declaration",
                                   "Expected an identifier")
       IN IF id.res # "ok" THEN id
          ELSE
          LET q == parser_advance(id.parser)
          IN IF ~parser_is_keyword(q, "Colon")
             THEN Failed("Declaration", "Variable type must be specified", q)
             ELSE
             With([type_annotation \in { parse_type_annotation(parser_advance(q)) } |->
                IF type_annotation.res # "ok" THEN type_annotation
                ELSE IF ~parser_is_keyword(type_annotation.parser, "Eq")
                THEN Failed("Declaration", "Variable must be initialized",
                            type_annotation.parser)
                ELSE
                With([expression \in { parse_expression(parser_advance(type_annotation.parser)) } |->
                   IF expression.res # "ok" THEN expression
                   ELSE
                   LET end == parser_peek(expression.parser)
                       line == end_line(expression.parser)
                   IN IF line.res # "ok" THEN line
                      ELSE
                      LET span == TokenSpan_sub(Unwrap(end).span, Unwrap(start).span)
                      IN IF span = None THEN Aborted(line.parser)
                         ELSE Parsed([name |-> id.value,
                                      typ |-> type_annotation.value,
                                      value |-> expression.value,
                                      mutable |-> mutable.value,
                                      span |-> Unwrap(span)], line.parser)])])

-----------------------------------------------------------------------------
(* Type definitions (type_definition.rs).                                  *)

TypeDef(name, body, span) == [name |-> name, body |-> body, span |-> span]
StructBody(fields) == [kind |-> "Struct", v |-> fields]
UnionBody(fields) == [kind |-> "Union", v |-> fields]
EnumBody(fields) == [kind |-> "Enum", v |-> fields]
AliasBody(typ) == [kind |-> "Alias", v |-> typ]

parse_struct_field(p) ==
    IF is_identifier(p) = None
    THEN Failed("TypeDefinition", "Expected an identifier", p)
    ELSE LET q == parser_advance(p)
         IN IF ~parser_is_keyword(q, "Colon")
            THEN Failed("TypeDefinition", "Expected ':' after an identifier", q)
            ELSE With([type_annotation \in { parse_type_annotation(parser_advance(q)) } |->
                    IF type_annotation.res # "ok" THEN type_annotation
                    ELSE Parsed(<<Unwrap(is_identifier(p)), type_annotation.value>>,
                                type_annotation.parser)])

\* The loop of parse_struct_body, and the Ok(fields) after it.
RECURSIVE parse_struct_body_loop(_, _)
parse_struct_body_loop(p, fields) ==
    IF parser_is_keyword(p, "CloseBracket") THEN Parsed(fields, p)
    ELSE With([field \in { parse_struct_field(p) } |->
            IF field.res # "ok" THEN field
            ELSE IF field.value[1] \in DOMAIN fields
            THEN Failed("TypeDefinition", "Duplicated struct field", field.parser)
            ELSE LET inserted == MapInsert(fields, field.value[1], field.value[2])
                 IN IF ~parser_is_keyword(field.parser, "Comma")
                    THEN Parsed(inserted, field.parser)
                    ELSE parse_struct_body_loop(parser_advance(field.parser), inserted)])
parse_struct_body(p) ==
    IF ~parser_is_keyword(p, "OpenBracket")
    THEN Failed("TypeDefinition", "Expected '{'", p)
    ELSE parse_struct_body_loop(parser_advance(p), EmptyMap)

\* parse_struct and parse_union: the keyword is checked by a debug_assert!.
parse_struct_or_union(p, keyword) ==
    IF DebugAssertFails(parser_is_keyword(p, keyword)) THEN Aborted(p)
    ELSE LET q == parser_advance(p)
         IN IF is_identifier(q) = None
            THEN Failed("TypeDefinition", "Expected an identifier", q)
            ELSE With([fields \in { parse_struct_body(parser_advance(q)) } |->
                    IF fields.res # "ok" THEN fields
                    ELSE Parsed(TypeDef(Unwrap(is_identifier(q)),
                                        IF keyword = "Struct"
                                        THEN StructBody(fields.value)
                                        ELSE UnionBody(fields.value),
                                        Unwrap(parser_peek(q)).span), fields.parser)])
parse_struct(p) == parse_struct_or_union(p, "Struct")
parse_union(p) == parse_struct_or_union(p, "Union")

\* prev + 1 on u64: None is the panic of the overflow check.
next_enum_value(prev) ==
    IF prev + 1 > U64_MAX
    THEN IF OverflowChecks THEN None ELSE Some(0)
    ELSE Some(prev + 1)

parse_enum_field(p, prev) ==
    IF is_identifier(p) = None
    THEN Failed("TypeDefinition", "Expected an identifier", p)
    ELSE LET id == Unwrap(is_identifier(p))
             q == parser_advance(p)
         IN IF ~parser_is_keyword(q, "Eq")
            THEN IF next_enum_value(prev) = None THEN Aborted(q)
                 ELSE Parsed(<<id, Unwrap(next_enum_value(prev))>>, q)
            ELSE LET r == parser_advance(q)
                 IN IF is_uint(r) = None
                    THEN Failed("TypeDefinition", "Expected a positive integer value", r)
                    ELSE Parsed(<<id, Unwrap(is_uint(r))>>, r)

\* The loop of parse_enum_body, and the advance and Ok(fields) after it.
RECURSIVE parse_enum_body_loop(_, _, _, _)
parse_enum_body_loop(p, fields, values, prev_value) ==
    IF parser_is_keyword(p, "CloseBracket") THEN Parsed(fields, parser_advance(p))
    ELSE With([field \in { parse_enum_field(p, prev_value) } |->
            IF field.res # "ok" THEN field
            ELSE IF field.value[1] \in DOMAIN fields
            THEN Failed("TypeDefinition", "Duplicated enum field", field.parser)
            ELSE IF field.value[2] \in values
            THEN Failed("TypeDefinition", "Duplicated enum value", field.parser)
            ELSE LET inserted == MapInsert(fields, field.value[1], field.value[2])
                 IN IF ~parser_is_keyword(field.parser, "Comma")
                    THEN IF parser_is_keyword(field.parser, "CloseBracket")
                         THEN Parsed(inserted, parser_advance(field.parser))
                         ELSE Failed("TypeDefinition", "Expected '}'", field.parser)
                    ELSE parse_enum_body_loop(parser_advance(field.parser), inserted,
                                              values \cup { field.value[2] },
                                              field.value[2])])
parse_enum_body(p) ==
    IF ~parser_is_keyword(p, "OpenBracket")
    THEN Failed("TypeDefinition", "Expected '{'", p)
    ELSE parse_enum_body_loop(parser_advance(p), EmptyMap, {}, 0)

parse_enum(p) ==
    IF DebugAssertFails(parser_is_keyword(p, "Enum")) THEN Aborted(p)
    ELSE LET q == parser_advance(p)
         IN IF is_identifier(q) = None
            THEN Failed("TypeDefinition", "Expected an identifier", q)
            ELSE With([fields \in { parse_enum_body(parser_advance(q)) } |->
                    IF fields.res # "ok" THEN fields
                    ELSE Parsed(TypeDef(Unwrap(is_identifier(q)), EnumBody(fields.value),
                                        Unwrap(parser_peek(q)).span), fields.parser)])

parse_alias(p) ==
    IF DebugAssertFails(parser_is_keyword(p, "Use")) THEN Aborted(p)
    ELSE LET q == parser_advance(p)
         IN IF is_identifier(q) = None
            THEN Failed("TypeDefinition", "Expected an identifier", q)
            ELSE LET r == parser_advance(q)
                 IN IF ~parser_is_keyword(r, "Eq")
                    THEN Failed("TypeDefinition", "Expected '='", r)
                    ELSE With([typ \in { parse_type_annotation(parser_advance(r)) } |->
                            IF typ.res # "ok" THEN typ
                            ELSE LET line == end_line(typ.parser)
                                 IN IF line.res # "ok" THEN line
                                    ELSE Parsed(TypeDef(Unwrap(is_identifier(q)),
                                                        AliasBody(typ.value),
                                                        Unwrap(parser_peek(q)).span),
                                                line.parser)])

parse_type_definition(p) ==
    IF parser_peek(p) = None THEN Aborted(p)
    ELSE IF parser_is_keyword(p, "Struct") THEN parse_struct(p)
    ELSE IF parser_is_keyword(p, "Enum") THEN parse_enum(p)
    ELSE IF parser_is_keyword(p, "Union") THEN parse_union(p)
    ELSE IF parser_is_keyword(p, "Use") THEN parse_alias(p)
    ELSE Aborted(p)

-----------------------------------------------------------------------------
(* Statements (statement.rs, assignment.rs, return.rs, conditional.rs,     *)
(* loop.rs, match.rs) and blocks (mod.rs).                                 *)

\* A loop of the parser that repeats a turn which leaves the parser as it
\* found it never ends: the call does not return.
Hung(p) == [res |-> "hang", value |-> NoNode, error |-> NoParseError, parser |-> p]

Statement(kind, v) == [kind |-> kind, v |-> v]

AssignmentTypes ==
    { <<"Assign", "Assign">>, <<"PlusEq", "Plus">>, <<"MinusEq", "Minus">>,
      <<"MulEq", "Mul">>, <<"DivEq", "Div">>, <<"ModuloEq", "Mod">>,
      <<"LeftShiftEq", "LeftShift">>, <<"RightShiftEq", "RightShift">>,
      <<"BitAndEq", "BitAnd">>, <<"BitOrEq", "BitOr">>, <<"BitXorEq", "BitXor">> }
match_assignment_type(punc) == { a[2] : a \in { t \in AssignmentTypes : t[1] = punc } }

parse_assignment_or_expression(p) ==
    IF parser_peek(p) = None THEN Aborted(p)
    ELSE
    LET start == parser_peek(p)
        IN With([left \in { parse_expression(p) } |->
       IF left.res # "ok" THEN left
       ELSE
       LET token == expect_token(left.parser, "Statement", "Invalid statement")
       IN IF token.res # "ok" THEN token
          ELSE IF token.value.value.kind # "Keyword"
          THEN Failed("Statement", "Expected assignment operator", left.parser)
          ELSE IF token.value.value.v = "Semicolon"
          THEN Parsed(Statement("Expression", left.value), parser_advance(left.parser))
          ELSE IF match_assignment_type(token.value.value.v) = None
          THEN Failed("Statement", "Invalid expression", left.parser)
          ELSE
          With([right \in { parse_expression(parser_advance(left.parser)) } |->
             IF right.res # "ok" THEN right
             ELSE
             LET end == parser_peek(right.parser)
                 line == end_line(right.parser)
             IN IF line.res # "ok" THEN line
                ELSE
                LET span == TokenSpan_sub(Unwrap(end).span, Unwrap(start).span)
                IN IF span = None THEN Aborted(line.parser)
                   ELSE Parsed(Statement("Assignment",
                                   [left |-> left.value, right |-> right.value,
                                    typ |-> Unwrap(match_assignment_type(
                                                       token.value.value.v)),
                                    span |-> Unwrap(span)]),
                               line.parser)])])

parse_return(p) ==
    IF DebugAssertFails(parser_is_keyword(p, "Return")) THEN Aborted(p)
    ELSE With([exp \in { parse_expression(parser_advance(p)) } |->
            IF exp.res # "ok" THEN exp
            ELSE LET line == end_line(exp.parser)
                 IN IF line.res # "ok" THEN line
                    ELSE Parsed(Statement("Return", exp.value), line.parser)])

\* parse_paren_exp is called by parse_conditional and defined nowhere in
\* the sources: the condition '( expr )' of a conditional.
parse_paren_exp(p) ==
    IF ~parser_is_keyword(p, "OpenParen") THEN Failed("Conditional", "Expected '('", p)
    ELSE With([exp \in { parse_expression(parser_advance(p)) } |->
            IF exp.res # "ok" THEN exp
            ELSE IF ~parser_is_keyword(exp.parser, "CloseParen")
                 THEN Failed("Conditional", "Expected ')'", exp.parser)
                 ELSE Parsed(exp.value, parser_advance(exp.parser))])

RECURSIVE parse_statement(_)
RECURSIVE parse_block_loop(_, _)
RECURSIVE parse_conditional_loop(_, _, _)
RECURSIVE parse_for_updates(_, _)
RECURSIVE parse_match_loop(_, _, _, _)

\* The loop of parse_block, and the advance and Ok(statements) after it.
parse_block_loop(p, statements) ==
    IF parser_is_keyword(p, "CloseBracket") THEN Parsed(statements, parser_advance(p))
    ELSE With([statement \in { parse_statement(p) } |->
            IF statement.res # "ok" THEN statement
            ELSE IF statement.parser = p THEN Hung(p)
            ELSE parse_block_loop(statement.parser, Append(statements, statement.value))])
parse_block(p) ==
    IF ~parser_is_keyword(p, "OpenBracket")
    THEN Failed("Conditional", "Expected contional body", p)
    ELSE parse_block_loop(parser_advance(p), <<>>)

ConditionalBranch(condition, body) == [condition |-> condition, body |-> body]

\* 'if' or 'else if' is consumed: the condition and the block of a branch.
parse_branch(p) ==
    With([condition \in { parse_paren_exp(p) } |->
       IF condition.res # "ok" THEN condition
       ELSE With([block \in { parse_block(condition.parser) } |->
               IF block.res # "ok" THEN block
               ELSE Parsed(ConditionalBranch(condition.value, block.value), block.parser)])])

\* The loop of parse_conditional over the 'else' branches, and its result.
parse_conditional_loop(p, if_branch, elif_branches) ==
    IF ~parser_is_keyword(p, "Else")
    THEN Parsed(Statement("Conditional",
                          [if_branch |-> if_branch, elif_branches |-> elif_branches,
                           else_branch |-> None]), p)
    ELSE LET q == parser_advance(p)
         IN IF parser_is_keyword(q, "If")
            THEN With([branch \in { parse_branch(parser_advance(q)) } |->
                    IF branch.res # "ok" THEN branch
                    ELSE parse_conditional_loop(branch.parser, if_branch,
                                                Append(elif_branches, branch.value))])
            ELSE With([block \in { parse_block(q) } |->
                    IF block.res # "ok" THEN block
                    ELSE Parsed(Statement("Conditional",
                                          [if_branch |-> if_branch,
                                           elif_branches |-> elif_branches,
                                           else_branch |-> Some(block.value)]),
                                block.parser)])
parse_conditional(p) ==
    IF DebugAssertFails(parser_is_keyword(p, "If")) THEN Aborted(p)
    ELSE With([branch \in { parse_branch(parser_advance(p)) } |->
            IF branch.res # "ok" THEN branch
            ELSE parse_conditional_loop(branch.parser, branch.value, <<>>)])

Loop(init, condition, update, body) ==
    [init |-> init, condition |-> condition, update |-> update, body |-> body]

\* The loop of parse_for over the updates that follow a ','.
parse_for_updates(p, update) ==
    IF ~parser_is_keyword(p, "Comma") THEN Parsed(update, p)
    ELSE With([statement \in { parse_assignment_or_expression(parser_advance(p)) } |->
            IF statement.res # "ok" THEN statement
            ELSE parse_for_updates(statement.parser, Append(update, statement.value))])

parse_for(p) ==
    IF DebugAssertFails(parser_is_keyword(p, "For")) THEN Aborted(p)
    ELSE
    LET q == parser_advance(p)
    IN IF ~parser_is_keyword(q, "OpenParen") THEN Failed("Loop", "Expected '('", q)
       ELSE
       With([initialization \in {
               IF parser_is_keyword(parser_advance(q), "Semicolon")
               THEN Parsed(None, parser_advance(parser_advance(q)))
               ELSE With([declaration \in { parse_declaration(parser_advance(q)) } |->
                       IF declaration.res # "ok" THEN declaration
                       ELSE Parsed(Some(declaration.value), declaration.parser)]) } |->
          IF initialization.res # "ok" THEN initialization
          ELSE
          With([condition \in {
                  IF parser_is_keyword(initialization.parser, "Semicolon")
                  THEN Parsed(None, initialization.parser)
                  ELSE With([exp \in { parse_expression(initialization.parser) } |->
                          IF exp.res # "ok" THEN exp
                          ELSE Parsed(Some(exp.value), exp.parser)]) } |->
             IF condition.res # "ok" THEN condition
             ELSE IF ~parser_is_keyword(condition.parser, "Semicolon")
             THEN Failed("Loop", "Expected ';'", condition.parser)
             ELSE
             LET r == parser_advance(condition.parser)
                 IN With([update \in {
                     IF parser_is_keyword(r, "OpenBracket") THEN Parsed(<<>>, r)
                     ELSE With([statement \in { parse_assignment_or_expression(r) } |->
                             IF statement.res # "ok" THEN statement
                             ELSE parse_for_updates(statement.parser,
                                                    <<statement.value>>)]) } |->
                IF update.res # "ok" THEN update
                ELSE With([body \in { parse_block(parser_advance(update.parser)) } |->
                        IF body.res # "ok" THEN body
                        ELSE Parsed(Loop(initialization.value, condition.value,
                                         update.value, body.value), body.parser)])])])])

parse_while(p) ==
    IF DebugAssertFails(parser_is_keyword(p, "While")) THEN Aborted(p)
    ELSE
    LET q == parser_advance(p)
        IN With([condition \in {
            IF parser_is_keyword(q, "OpenBracket") THEN Parsed(None, q)
            ELSE IF ~parser_is_keyword(q, "OpenParen") THEN Failed("Loop", "Expected '('", q)
            ELSE With([exp \in { parse_expression(parser_advance(q)) } |->
                    IF exp.res # "ok" THEN exp
                    ELSE IF ~parser_is_keyword(exp.parser, "CloseParen")
                    THEN Failed("Loop", "Expected ')'", exp.parser)
                    ELSE Parsed(Some(exp.value), parser_advance(exp.parser))]) } |->
       IF condition.res # "ok" THEN condition
       ELSE With([body \in { parse_block(condition.parser) } |->
               IF body.res # "ok" THEN body
               ELSE Parsed(Loop(None, condition.value, <<>>, body.value), body.parser)])])

parse_loop(p) ==
    With([loop \in { IF parser_is_keyword(p, "For") THEN parse_for(p)
                ELSE IF parser_is_keyword(p, "While") THEN parse_while(p)
                ELSE Aborted(p) } |->
       IF loop.res # "ok" THEN loop
       ELSE Parsed(Statement("Loop", loop.value), loop.parser)])

parse_case_body(p) ==
    IF ~parser_is_keyword(p, "MatchCase") THEN Failed("Match", "Expected case", p)
    ELSE parse_block(parser_advance(p))

parse_case(p) ==
    With([condition \in { parse_expression(p) } |->
       IF condition.res # "ok" THEN condition
       ELSE With([body \in { parse_case_body(condition.parser) } |->
               IF body.res # "ok" THEN body
               ELSE Parsed(ConditionalBranch(condition.value, body.value), body.parser)])])

\* The name of the default branch of a match.
DefaultCase == "_"

\* The loop of parse_match over the cases, and the advance and Ok after it.
parse_match_loop(p, value, cases, default) ==
    IF parser_is_keyword(p, "CloseBracket")
    THEN Parsed(Statement("Match", [value |-> value, cases |-> cases,
                                    default |-> default]), parser_advance(p))
    ELSE IF is_identifier(p) = Some(DefaultCase)
    THEN IF default # None THEN Failed("Match", "Multiple default branches", p)
         ELSE With([body \in { parse_case_body(parser_advance(p)) } |->
                 IF body.res # "ok" THEN body
                 ELSE parse_match_loop(body.parser, value, cases, Some(body.value))])
    ELSE With([case \in { parse_case(p) } |->
            IF case.res # "ok" THEN case
            ELSE parse_match_loop(case.parser, value, Append(cases, case.value), default)])

parse_match(p) ==
    IF DebugAssertFails(parser_is_keyword(p, "Match")) THEN Aborted(p)
    ELSE
    LET q == parser_advance(p)
    IN IF ~parser_is_keyword(q, "OpenParen") THEN Failed("Match", "Expected match value", q)
       ELSE With([value \in { parse_expression(parser_advance(q)) } |->
               IF value.res # "ok" THEN value
               ELSE IF ~parser_is_keyword(value.parser, "CloseParen")
               THEN Failed("Match", "Expected ')'", value.parser)
               ELSE IF ~parser_is_keyword(parser_advance(value.parser), "OpenBracket")
               THEN Failed("Match", "Expected match body", parser_advance(value.parser))
               ELSE parse_match_loop(parser_advance(parser_advance(value.parser)),
                                     value.value, <<>>, None)])

parse_statement(p) ==
    LET token == expect_token(p, "Statement", "Expected statement")
    IN IF token.res # "ok" THEN token
       ELSE IF token.value.value.kind # "Keyword"
       THEN parse_assignment_or_expression(p)
       ELSE LET kw == token.value.value.v
            IN IF kw = "If" THEN parse_conditional(p)
               ELSE IF kw = "Match" THEN parse_match(p)
               ELSE IF kw \in { "For", "While" } THEN parse_loop(p)
               ELSE IF kw \in { "Let", "Var" }
               THEN With([declaration \in { parse_declaration(p) } |->
                       IF declaration.res # "ok" THEN declaration
                       ELSE Parsed(Statement("Declaration", declaration.value),
                                   declaration.parser)])
               ELSE IF kw = "Return" THEN parse_return(p)
               ELSE IF kw = "Continue" THEN Parsed(Statement("Continue", token.value.span), p)
               ELSE IF kw = "Break" THEN Parsed(Statement("Break", token.value.span), p)
               ELSE Failed("Statement", "Invalid statement", p)

-----------------------------------------------------------------------------
(* Functions (function.rs).                                                *)

parse_argument(p) ==
    IF is_identifier(p) = None THEN Failed("Function", "Expected argument name", p)
    ELSE LET q == parser_advance(p)
         IN IF ~parser_is_keyword(q, "Colon")
            THEN Failed("Function", "Argument type must be specified", q)
            ELSE With([typ \in { parse_type_annotation(parser_advance(q)) } |->
                    IF typ.res # "ok" THEN typ
                    ELSE IF back(typ.parser) = None THEN Aborted(typ.parser)
                    ELSE LET span == TokenSpan_sub(Unwrap(back(typ.parser)).span,
                                                   Unwrap(parser_peek(p)).span)
                         IN IF span = None THEN Aborted(typ.parser)
                            ELSE Parsed([name |-> Unwrap(is_identifier(p)),
                                         typ |-> typ.value, span |-> Unwrap(span)],
                                        typ.parser)])

\* The loop of parse_arguments, and the advance and Ok(arguments) after it.
RECURSIVE parse_arguments_loop(_, _)
parse_arguments_loop(p, arguments) ==
    IF parser_is_keyword(p, "CloseParen") THEN Parsed(arguments, parser_advance(p))
    ELSE With([argument \in { parse_argument(p) } |->
            IF argument.res # "ok" THEN argument
            ELSE IF parser_is_keyword(argument.parser, "CloseParen")
            THEN Parsed(Append(arguments, argument.value), parser_advance(argument.parser))
            ELSE IF ~parser_is_keyword(argument.parser, "Comma")
            THEN Failed("Function", "Expected ')'", argument.parser)
            ELSE parse_arguments_loop(parser_advance(argument.parser),
                                      Append(arguments, argument.value))])
parse_arguments(p) ==
    IF ~parser_is_keyword(p, "OpenParen") THEN Failed("Function", "Expected argument list", p)
    ELSE parse_arguments_loop(parser_advance(p), <<>>)

parse_return_type(p) ==
    IF parser_is_keyword(p, "OpenBracket") THEN Parsed(None, p)
    ELSE IF ~parser_is_keyword(p, "ReturnType")
    THEN Failed("Function", "Expected function name", p)
    ELSE With([typ \in { parse_type_annotation(parser_advance(p)) } |->
            IF typ.res # "ok" THEN typ ELSE Parsed(Some(typ.value), typ.parser)])

\* The loop of parse_asm over the string literals.
RECURSIVE parse_asm_lines(_, _)
parse_asm_lines(p, lines) ==
    IF parser_peek(p) # None /\ Unwrap(parser_peek(p)).value.kind = "String"
    THEN parse_asm_lines(parser_advance(p), Append(lines, Unwrap(parser_peek(p)).value.v))
    ELSE Parsed(lines, p)
parse_asm(p) ==
    IF ~parser_is_keyword(p, "OpenParen") THEN Failed("Function", "Expected '{'", p)
    ELSE With([lines \in { parse_asm_lines(parser_advance(p), <<>>) } |->
            IF ~parser_is_keyword(lines.parser, "CloseParen")
            THEN Failed("Function", "Expected '}'", lines.parser)
            ELSE Parsed([kind |-> "Asm", v |-> lines.value], lines.parser)])

\* No TokenType is the keyword 'asm': parser_is_keyword(TokenType::Asm) is false.
parse_function(p) ==
    IF DebugAssertFails(parser_is_keyword(p, "Fn")) THEN Aborted(p)
    ELSE
    LET q == parser_advance(p)
    IN IF is_identifier(q) = None THEN Failed("Function", "Expected function name", q)
       ELSE
       With([arguments \in { parse_arguments(parser_advance(q)) } |->
          IF arguments.res # "ok" THEN arguments
          ELSE
          With([return_typ \in { parse_return_type(arguments.parser) } |->
             IF return_typ.res # "ok" THEN return_typ
             ELSE
             With([body \in { IF parser_is_keyword(p, "Fn")
                         THEN With([block \in { parse_block(return_typ.parser) } |->
                                 IF block.res # "ok" THEN block
                                 ELSE Parsed([kind |-> "Normal", v |-> block.value],
                                             block.parser)])
                         ELSE parse_asm(return_typ.parser) } |->
                IF body.res # "ok" THEN body
                ELSE Parsed([name |-> Unwrap(is_identifier(q)),
                             arguments |-> arguments.value,
                             return_type |-> return_typ.value,
                             body |-> body.value,
                             span |-> Unwrap(parser_peek(q)).span], body.parser)])])])

-----------------------------------------------------------------------------
(* Files (file.rs).                                                        *)

Scope(visibility, value) == [visibility |-> visibility, value |-> value]

parse_module_declaration(p) ==
    IF ~parser_is_keyword(p, "Module")
    THEN Failed("Module", "A file must start with a module declaration", p)
    ELSE LET q == parser_advance(p)
         IN IF is_identifier(q) = None
            THEN Failed("Module",
                        "Keyword 'module' must be followed by a valid identifier", q)
            ELSE Parsed(Unwrap(is_identifier(q)), parser_advance(q))

parse_import(p) ==
    IF DebugAssertFails(parser_is_keyword(p, "Import")) THEN Aborted(p)
    ELSE LET q == parser_advance(p)
         IN IF is_identifier(q) = None
            THEN Failed("Import",
                        "Keyword 'import' must be followed by a valid identifier", q)
            ELSE LET line == end_line(parser_advance(q))
                 IN IF line.res # "ok" THEN line
                    ELSE Parsed(Unwrap(is_identifier(q)), line.parser)

RECURSIVE parse_imports_loop(_, _)
parse_imports_loop(p, imports) ==
    IF ~parser_is_keyword(p, "Import") THEN Parsed(imports, p)
    ELSE With([import \in { parse_import(p) } |->
            IF import.res # "ok" THEN import
            ELSE IF import.value \in imports
            THEN Failed("Import", "Duplicated imports", import.parser)
            ELSE parse_imports_loop(import.parser, imports \cup { import.value })])
parse_imports(p) == parse_imports_loop(p, {})

parse_visibility(p) ==
    IF parser_is_keyword(p, "Pub") THEN Parsed("Public", parser_advance(p))
    ELSE IF parser_is_keyword(p, "Prv") THEN Parsed("Private", parser_advance(p))
    ELSE IF parser_is_keyword(p, "Mod") THEN Parsed("Module", parser_advance(p))
    ELSE Failed("Module", "Expected visibility specifier", p)

\* parse_content on the three maps of the file: its value is the maps
\* it leaves.
parse_content(p, content) ==
    With([visibility \in { parse_visibility(p) } |->
       IF visibility.res # "ok" THEN visibility
       ELSE
       LET q == visibility.parser
           token == expect_token(q, "Module", "Missing symbol definition")
       IN IF token.res # "ok" THEN token
          ELSE IF token.value.value.kind # "Keyword"
          THEN Failed("Module", "Expected keyword", q)
          ELSE IF token.value.value.v \in { "Struct", "Enum", "Union", "Use" }
          THEN With([value \in { parse_type_definition(q) } |->
                  IF value.res # "ok" THEN value
                  ELSE IF value.value.name \in DOMAIN content.types
                  THEN Failed("Module", "Duplicated type name", value.parser)
                  ELSE Parsed([content EXCEPT !.types =
                                   MapInsert(@, value.value.name,
                                             Scope(visibility.value, value.value))],
                              value.parser)])
          ELSE IF token.value.value.v \in { "Let", "Var" }
          THEN With([value \in { parse_declaration(q) } |->
                  IF value.res # "ok" THEN value
                  ELSE IF value.value.name \in DOMAIN content.globals
                  THEN Failed("Module", "Duplicated global name", value.parser)
                  ELSE Parsed([content EXCEPT !.globals =
                                   MapInsert(@, value.value.name,
                                             Scope(visibility.value, value.value))],
                              value.parser)])
          ELSE IF token.value.value.v = "Fn"
          THEN With([value \in { parse_function(q) } |->
                  IF value.res # "ok" THEN value
                  ELSE IF value.value.name \in DOMAIN content.functions
                  THEN Failed("Module", "Duplicated function name", value.parser)
                  ELSE Parsed([content EXCEPT !.functions =
                                   MapInsert(@, value.value.name,
                                             Scope(visibility.value, value.value))],
                              value.parser)])
          ELSE Failed("Module", "Invalid top level definition", q)])

\* The loop of parse_file over the definitions.
RECURSIVE parse_file_loop(_, _)
parse_file_loop(p, content) ==
    IF parser_peek(p) = None THEN Parsed(content, p)
    ELSE With([r \in { parse_content(p, content) } |->
            IF r.res # "ok" THEN r ELSE parse_file_loop(r.parser, r.value)])

parse_file(p, filename, module_name) ==
    With([module \in { parse_module_declaration(p) } |->
       IF module.res # "ok" THEN module
       ELSE IF module.value # module_name
       THEN Failed("Module", "Incorrect module name", module.parser)
       ELSE With([imports \in { parse_imports(module.parser) } |->
               IF imports.res # "ok" THEN imports
               ELSE With([content \in { parse_file_loop(imports.parser,
                                                   [types |-> EmptyMap,
                                                    globals |-> EmptyMap,
                                                    functions |-> EmptyMap]) } |->
                       IF content.res # "ok" THEN content
                       ELSE Parsed([name |-> filename, module |-> module.value,
                                    imports |-> imports.value,
                                    globals |-> content.value.globals,
                                    functions |-> content.value.functions,
                                    types |-> content.value.types], content.parser)])])])

\* SyntacticParser::parse
parse(toks, filename, module_name) == parse_file(NewParser(toks), filename, module_name)

-----------------------------------------------------------------------------
(* The parser before its first call.                                       *)

NotParsed ==
    [op |-> "none", input |-> 0, res |-> "none", value |-> NoNode,
     error |-> NoParseError]

InitParser ==
    /\ parser = NewParser(<<>>)
    /\ parsed = NotParsed

\* No module is being loaded and nothing has been resolved.
NoWorld == [manifest |-> EmptyMap, files |-> EmptyMap]
NotLoaded ==
    [state |-> "idle", entry |-> <<>>, queue |-> {}, modules |-> EmptyMap,
     reads |-> EmptyMap, error |-> NoParseError]
NotResolved == [state |-> "idle", queue |-> <<>>, resolved |-> {}, error |-> ""]
NoSemantic ==
    [type_id |-> 0, heap |-> <<>>, ast |-> None, op |-> "none", res |-> "none",
     error |-> None, value |-> NoNode,
     call |-> [module |-> <<>>, file |-> "", name |-> "", annot |-> NoNode]]

InitLoader ==
    /\ world = NoWorld
    /\ loader = NotLoaded
    /\ resolver = NotResolved
    /\ semantic = NoSemantic

-----------------------------------------------------------------------------
(* The pool after InternPool::new(), used by an arbitrary caller.          *)

InitPool ==
    /\ symbol_counter = InternPoolNew.counter
    /\ symbol_pool = InternPoolNew.pool
    /\ symbol_reverse = None
    /\ path_counter = 0
    /\ path_pool = EmptyMap
    /\ path_reverse = None
    /\ hist_symbol = EmptyMap
    /\ hist_path = EmptyMap
    /\ frozen_counter = None
    /\ late_calls = 0

\* No file is being lexed.
InitLexer ==
    /\ lexer = NewLexer(0, <<>>)
    /\ tokens = <<>>
    /\ lex_state = "idle"
    /\ lex_error = NoError
    /\ lexed = <<>>

Init ==
    /\ debug_build \in BOOLEAN
    /\ InitPool
    /\ ret = Returned("new", "", None)
    /\ panicked = FALSE
    /\ InitLexer
    /\ files_left = 0
    /\ InitParser
    /\ InitLoader

Next ==
    \/ \E s \in Symbols : insert_symbol(s)
    \/ \E p \in Paths : insert_path(p)
    \/ \E s \in Symbols : search_symbol(s)
    \/ \E id \in SymbolIds : symbol_reverse_lookup(id)
    \/ \E id \in PathIds : path_reverse_lookup(id)

Spec == Init /\ [][Next]_vars

-----------------------------------------------------------------------------
(* Lexer::lex, one file after the other on the shared pool.                *)

\* lex, up to the loop: the Lexer on the input, one of `texts`, and the
\* empty Vec.  The caller lexes the next file after an Ok; an Err or a
\* panic ends the run.
lex_begin(texts) ==
    /\ ~panicked
    /\ lex_state \in { "idle", "done" }
    /\ files_left > 0
    /\ \E text \in texts : lexer' = NewLexer(Len(lexed), text)
    /\ tokens' = <<>>
    /\ lex_state' = "lexing"
    /\ files_left' = files_left - 1
    /\ UNCHANGED <<loadVars, debug_build, poolVars, ret, panicked, histVars, lex_error, lexed,
                   parseVars>>

\* One turn of the loop `while let Some(token) = lexer.next_token(pool)?`:
\* next_token, then the push, the Ok(tokens) at the end of the input, or
\* the Err that `?` returns, which drops the Vec.
next_token ==
    /\ ~panicked
    /\ lex_state = "lexing"
    /\ LET s == start_token(skip_whitespace_and_comments(lexer))
       IN IF peek(s) = None
          THEN /\ lexer' = s
               /\ lex_state' = "done"
               /\ lexed' = Append(lexed, [input |-> s.input, tokens |-> tokens])
               /\ UNCHANGED <<tokens, lex_error, symbol_pool, symbol_counter,
                              hist_symbol, panicked>>
          ELSE LET v == next_token_value(s)
               IN /\ lexer' = v.r.lexer
                  /\ symbol_pool' = v.pool
                  /\ symbol_counter' = v.counter
                  /\ hist_symbol' = IF v.id = None THEN hist_symbol
                                    ELSE Record(hist_symbol, v.word, Unwrap(v.id))
                  /\ tokens' = IF v.r.res = "ok"
                               THEN Append(tokens, [value |-> v.r.value,
                                                    span |-> end_token(v.r.lexer)])
                               ELSE <<>>
                  /\ lex_state' = IF v.r.res = "err" THEN "error" ELSE lex_state
                  /\ lex_error' = v.r.error
                  /\ panicked' = (v.r.res = "panic")
                  /\ UNCHANGED lexed
    /\ UNCHANGED <<loadVars, debug_build, symbol_reverse, path_counter, path_pool, path_reverse,
                   ret, hist_path, frozen_counter, late_calls, files_left,
                   parseVars>>

\* The pool when the lexer starts: InternPool::new() and the names that the
\* module loader has interned before it reads a file.
RECURSIVE Preloaded(_, _)
Preloaded(names, p) ==
    IF names = <<>> THEN p
    ELSE LET ins == InternInsert(p.pool, p.counter, Head(names))
         IN Preloaded(Tail(names),
                      [pool |-> ins.pool, counter |-> ins.counter,
                       hist |-> Record(p.hist, Head(names), ins.id)])

InitLexing(loaded, files) ==
    /\ debug_build \in BOOLEAN
    /\ \E names \in loaded :
          LET p == Preloaded(names, [pool |-> InternPoolNew.pool,
                                     counter |-> InternPoolNew.counter,
                                     hist |-> EmptyMap])
          IN /\ symbol_pool = p.pool
             /\ symbol_counter = p.counter
             /\ hist_symbol = p.hist
    /\ symbol_reverse = None
    /\ path_counter = 0
    /\ path_pool = EmptyMap
    /\ path_reverse = None
    /\ hist_path = EmptyMap
    /\ frozen_counter = None
    /\ late_calls = 0
    /\ ret = Returned("new", "", None)
    /\ panicked = FALSE
    /\ InitLexer
    /\ files_left = files
    /\ InitParser
    /\ InitLoader

\* The sequences over S of lo to hi elements.
SeqsOf(S, lo, hi) == UNION { [1 .. n -> S] : n \in lo .. hi }

RECURSIVE Join(_, _)
Join(parts, sep) ==
    IF Len(parts) = 1 THEN Head(parts)
    ELSE Head(parts) \o sep \o Join(Tail(parts), sep)

\* Files of words: keywords, identifiers, a prefix of a keyword, a word with
\* a digit, the underscore, a letter outside ASCII.
MaxWords == 2
MaxFiles == 2
Words ==
    { <<"l", "e", "t">>, <<"l", "e">>, <<"x">>, <<"x", "1">>, <<"_">>, <<"U+E9">>,
      <<"o", "r">> }
WordTexts == { Join(ws, <<" ">>) : ws \in SeqsOf(Words, 1, MaxWords) }

InitWords == InitLexing({ <<>>, <<"x">> }, MaxFiles)
NextWords ==
    \/ lex_begin(WordTexts)
    \/ next_token
SpecLexWords == InitWords /\ [][NextWords]_vars

\* Files of one integer literal: every decimal literal of up to MaxDigits
\* digits, with and without the sign; 0x / 0b and a body of up to MaxDigits
\* chars, and the binary bodies around the width of the integer.
MaxDigits == 3
Ones(n) == [i \in 1 .. n |-> "1"]
DecimalTexts ==
    { sign \o ds : sign \in { <<>>, <<"-">> }, ds \in SeqsOf(AsciiDigits, 1, MaxDigits) }
RadixBodies ==
    SeqsOf({ "0", "1", "2", "3", "F", "G" }, 0, MaxDigits)
        \cup { Ones(IntBits), Ones(IntBits + 1) }
RadixTexts ==
    { <<"0", p>> \o body : p \in { "x", "X", "b", "B" }, body \in RadixBodies }
NumberTexts == DecimalTexts \cup RadixTexts

InitNumbers == InitLexing({ <<>> }, 1)
NextNumbers ==
    \/ lex_begin(NumberTexts)
    \/ next_token
SpecLexNumbers == InitNumbers /\ [][NextNumbers]_vars

\* Files of punctuation: up to MaxPunct chars that begin table entries, one
\* that begins none, and a letter.  The pool may hold names made of
\* punctuation that are no table entries.
MaxPunct == 3
PunctAlphabet == { ">", "<", "=", "-", ":", "+", "!", "&", "@", "x" }
PunctTexts == SeqsOf(PunctAlphabet, 1, MaxPunct)

InitPunct == InitLexing({ <<>>, <<">>>", "@", "+-">> }, 1)
NextPunct ==
    \/ lex_begin(PunctTexts)
    \/ next_token
SpecLexPunct == InitPunct /\ [][NextPunct]_vars

\* Files of layout: every text of up to MaxLayout chars made of a letter, a
\* digit, the slash, the double quote, the blank and the newline.
MaxLayout == 4
LayoutAlphabet == { "x", "1", "/", "\"", " ", "\n" }
LayoutTexts == SeqsOf(LayoutAlphabet, 1, MaxLayout)

InitLayout == InitLexing({ <<>> }, 1)
NextLayout ==
    \/ lex_begin(LayoutTexts)
    \/ next_token
SpecLexLayout == InitLayout /\ [][NextLayout]_vars

\* Files of one string literal: up to MaxPieces pieces between the quotes,
\* each a plain char or an escape, well formed or not.  `val` is the char
\* that the piece stands for, None when the escape is not a valid one.
MaxPieces == 2
Pieces ==
    { [chars |-> <<"a">>, val |-> Some("a")],
      [chars |-> <<"\\", "n">>, val |-> Some("\n")],
      [chars |-> <<"\\", "t">>, val |-> Some("\t")],
      [chars |-> <<"\\", "r">>, val |-> Some("\r")],
      [chars |-> <<"\\", "\\">>, val |-> Some("\\")],
      [chars |-> <<"\\", "\"">>, val |-> Some("\"")],
      [chars |-> <<"\\", "x", "4", "1">>, val |-> Some("A")],
      [chars |-> <<"\\", "u", "{", "4", "1", "}">>, val |-> Some("A")],
      [chars |-> <<"\\", "u", "{", "E", "9", "}">>, val |-> Some("U+E9")],
      [chars |-> <<"\\", "u", "{", "D", "8", "0", "0", "}">>, val |-> None],
      [chars |-> <<"\\", "u", "{", "1", "1", "0", "0", "0", "0", "}">>, val |-> None],
      [chars |-> <<"\\", "u", "{", "G", "}">>, val |-> None],
      [chars |-> <<"\\", "u", "4", "1">>, val |-> None],
      [chars |-> <<"\\", "u", "{", "4", "1">>, val |-> None] }
PieceSeqs == SeqsOf(Pieces, 1, MaxPieces)
StringLiteralOf(ps) ==
    <<"\"">> \o Join([i \in 1 .. Len(ps) |-> ps[i].chars], <<>>) \o <<"\"">>
StringTexts == { StringLiteralOf(ps) : ps \in PieceSeqs }

InitStrings == InitLexing({ <<>> }, 1)
NextStrings ==
    \/ lex_begin(StringTexts)
    \/ next_token
SpecLexStrings == InitStrings /\ [][NextStrings]_vars

-----------------------------------------------------------------------------
(* The '-' of two spans, called on the spans of a few short tokens.        *)

MaxSpanIndex == 3
MaxSpanSize == 2
SpanPaths == { 0, 1 }
Spans ==
    { [path |-> f, line |-> 1, column |-> i + 1, index |-> i, size |-> s] :
        f \in SpanPaths, i \in 0 .. MaxSpanIndex, s \in 1 .. MaxSpanSize }

\* self - other
sub(self, other) ==
    /\ ~panicked
    /\ LET span == Span_sub(self, other)
       IN /\ parsed' = [op |-> "sub", input |-> <<self, other>>,
                        res |-> IF span = None THEN "panic" ELSE "ok",
                        value |-> IF span = None THEN NoNode ELSE Unwrap(span),
                        error |-> NoParseError]
          /\ panicked' = (span = None)
    /\ UNCHANGED <<loadVars, debug_build, poolVars, ret, histVars, lexVars, parser>>

NextSpans == \E self, other \in Spans : sub(self, other)
SpecSpans == Init /\ [][NextSpans]_vars

-----------------------------------------------------------------------------
(* The parser on the tokens of a file.                                     *)

\* The tokens that the lexer makes of words written on one line with one
\* space between them.
NumberWords == << "0", "1", "2", "3" >>
TokenValueOf(word) ==
    IF word \in KeywordStrings
    THEN Keyword(TOKEN_TYPES_ENUM[CHOOSE i \in TablePositions(word) : TRUE])
    ELSE IF \E n \in 1 .. Len(NumberWords) : NumberWords[n] = word
    THEN LiteralUInt((CHOOSE n \in 1 .. Len(NumberWords) : NumberWords[n] = word) - 1)
    ELSE Identifier(word)
RECURSIVE Tokenize(_, _)
Tokenize(words, index) ==
    IF words = <<>> THEN <<>>
    ELSE << [ value |-> TokenValueOf(Head(words)),
              span |-> [ line |-> 1, column |-> index + 1, index |-> index,
                         size |-> Len(Head(words)) ] ] >>
         \o Tokenize(Tail(words), index + Len(Head(words)) + 1)
TokensOf(words) == Tokenize(words, 0)

\* A SyntacticParser on the tokens of one of the texts.
InitParsing(texts) ==
    /\ debug_build \in BOOLEAN
    /\ InitPool
    /\ ret = Returned("new", "", None)
    /\ panicked = FALSE
    /\ InitLexer
    /\ files_left = 0
    /\ \E words \in texts : parser = NewParser(TokensOf(words))
    /\ parsed = NotParsed
    /\ InitLoader

\* A call on the parser returns r, or panics.
Returns(op, r) ==
    /\ parser' = r.parser
    /\ parsed' = [op |-> op, input |-> parser.index, res |-> r.res,
                  value |-> r.value, error |-> r.error]
    /\ panicked' = (r.res = "panic")
    /\ UNCHANGED <<loadVars, debug_build, poolVars, ret, histVars, lexVars>>

\* parse, on a file of the module ModuleName: a header, imports and
\* definitions.
FileName == "f.code"
ModuleName == "m"
MaxImports == 2
MaxDefinitions == 2
Headers ==
    { <<>>, <<"module", "m", ";">>, <<"module", "m">>, <<"module", "n", ";">>,
      <<"module", ";">>, <<"m", ";">>, <<"import", "a", ";">> }
Imports == { <<"import", "a", ";">>, <<"import", "b", ";">> }
Definitions ==
    { <<"pub", "fn", "f", "(", ")", "->", "bool", "{", "return", "true", ";", "}">>,
      <<"pub", "fn", "f", "(", ")", "{", "}">>,
      <<"prv", "fn", "g", "(", ")", "{", "}">>,
      <<"pub", "enum", "f", "{", "A", "}">>,
      <<"mod", "enum", "E", "{", "A", ",", "B", "}">>,
      <<"pub", "let", "f", ":", "T", "=", "1", ";">>,
      <<"pub", "let", "f", ":", "T", "==", "1", ";", ";">>,
      <<"pub", "struct", "S", "{", "x", ":", "T", "}">>,
      <<"fn", "f", "(", ")", "{", "}">> }
RECURSIVE Concat(_)
Concat(parts) == IF parts = <<>> THEN <<>> ELSE Head(parts) \o Concat(Tail(parts))
FileTexts ==
    { header \o Concat(imports) \o Concat(definitions) :
        header \in Headers,
        imports \in SeqsOf(Imports, 0, MaxImports),
        definitions \in SeqsOf(Definitions, 0, MaxDefinitions) }

ParseFile ==
    /\ ~panicked
    /\ parsed.op = "none"
    /\ Returns("parse", parse(parser.tokens, FileName, ModuleName))

InitFiles == InitParsing(FileTexts)
NextFiles == ParseFile
SpecParseFiles == InitFiles /\ [][NextFiles]_vars

\* parse_declaration, on the tokens of a declaration and what follows it.
DeclarationKeywords == { <<"let">>, <<"var">>, <<"fn">> }
DeclarationTypes ==
    { <<":", "T">>, <<":", "*", "var", "T">>, <<":", "[", "]", "let", "T">>,
      <<":", "[", "3", "]", "var", "a", "::", "T">>, <<"T">>, <<":">> }
DeclarationValues ==
    { <<"=", "1">>, <<"=", "a">>, <<"=", "1", "+", "2">>, <<"==", "1">>,
      <<"==", "1", "+", "2">>, <<"=">>, <<>> }
DeclarationEnds == { <<";">>, <<>>, <<";", ";">>, <<";", "x">>, <<"x">> }
DeclarationTexts ==
    { keyword \o <<"x">> \o type \o value \o end :
        keyword \in DeclarationKeywords, type \in DeclarationTypes,
        value \in DeclarationValues, end \in DeclarationEnds }

ParseDeclaration ==
    /\ ~panicked
    /\ parsed.op = "none"
    /\ Returns("parse_declaration", parse_declaration(parser))

InitDeclarations == InitParsing(DeclarationTexts)
NextDeclarations == ParseDeclaration
SpecParseDeclarations == InitDeclarations /\ [][NextDeclarations]_vars

\* parse_expression, called on the parser until the tokens are used up.
\* The texts are chains of the operands 1, 2, 3 with binary operators, and
\* postfix forms, each followed by tokens that are no part of it.
MaxOperands == 3
Operands == << "1", "2", "3", "0" >>
BinaryOperators == { "+", "*", "-", "." }
RECURSIVE Chain(_, _)
Chain(operators, n) ==
    IF operators = <<>> THEN << Operands[n] >>
    ELSE << Operands[n], Head(operators) >> \o Chain(Tail(operators), n + 1)
ChainTexts == { Chain(operators, 1) : operators \in SeqsOf(BinaryOperators, 0, MaxOperands - 1) }
Callees == { <<"a">>, <<"a", ".", "b">>, <<"a", "::", "b">>, <<"-", "a">> }
Brackets == { <<"(", ")">>, <<"[", "]">>, <<"[", ")">>, <<"{", "}">> }
Contents ==
    { <<>>, <<"c">>, <<"1", ",", "2">>, <<"x", ":", "1">>,
      <<"x", ":", "1", ",", "y", ":", "2">> }
PostfixTexts ==
    { callee \o << brackets[1] >> \o content \o << brackets[2] >> :
        callee \in Callees, brackets \in Brackets, content \in Contents }
Followers == { <<>>, <<";">>, <<")">>, <<"}">>, <<";", "x">> }
UnaryTexts ==
    { <<"-", "1", "+", "2">>, <<"-", "1", "*", "2">>, <<"-", "a", ".", "b">> }
ExpressionTexts ==
    { text \o follower :
        text \in ChainTexts \cup Callees \cup PostfixTexts \cup UnaryTexts,
        follower \in Followers }

ParseExpression ==
    /\ ~panicked
    /\ parsed.res \in { "none", "ok" }
    /\ parser_peek(parser) # None
    /\ Returns("parse_expression", parse_expression(parser))

InitExpressions == InitParsing(ExpressionTexts)
NextExpressions == ParseExpression
SpecParseExpressions == InitExpressions /\ [][NextExpressions]_vars

\* parse_type_definition, on the tokens of an enum: its fields with or
\* without a value, with or without a trailing comma.
MaxEnumFields == 2
EnumNames == { "A", "B" }
EnumValues == { None, Some(0), Some(1), Some(2) }
EnumFields == { [name |-> n, value |-> v] : n \in EnumNames, v \in EnumValues }
EnumAssignments == { "=", "==" }
FieldWords(field, assignment) ==
    IF field.value = None THEN << field.name >>
    ELSE << field.name, assignment, NumberWords[Unwrap(field.value) + 1] >>
RECURSIVE FieldsWords(_, _)
FieldsWords(fields, assignment) ==
    IF fields = <<>> THEN <<>>
    ELSE FieldWords(Head(fields), assignment)
         \o (IF Len(fields) > 1 THEN << "," >> ELSE <<>>)
         \o FieldsWords(Tail(fields), assignment)
EnumText(fields, assignment, end) ==
    << "enum", "E", "{" >> \o FieldsWords(fields, assignment) \o end
EnumEnds == { << "}" >>, << ",", "}" >>, <<>> }
EnumTexts ==
    { EnumText(fields, assignment, end) :
        fields \in SeqsOf(EnumFields, 0, MaxEnumFields),
        assignment \in EnumAssignments, end \in EnumEnds }

ParseTypeDefinition ==
    /\ ~panicked
    /\ parsed.op = "none"
    /\ Returns("parse_type_definition", parse_type_definition(parser))

InitEnums == InitParsing(EnumTexts)
NextEnums == ParseTypeDefinition
SpecParseEnums == InitEnums /\ [][NextEnums]_vars

\* parse_type_definition, on the tokens of a struct or a union: its fields,
\* with or without a trailing comma, with or without the closing '}', and
\* what follows the definition in the file.
MaxStructFields == 2
StructKeywords == { "struct", "union" }
StructFieldNames == { "x", "y" }
StructFieldTypes == { "T", "U" }
StructFields ==
    { [name |-> n, typ |-> t] : n \in StructFieldNames, t \in StructFieldTypes }
RECURSIVE StructFieldsWords(_)
StructFieldsWords(fields) ==
    IF fields = <<>> THEN <<>>
    ELSE << Head(fields).name, ":", Head(fields).typ >>
         \o (IF Len(fields) > 1 THEN << "," >> ELSE <<>>)
         \o StructFieldsWords(Tail(fields))
StructText(keyword, fields, end, rest) ==
    << keyword, "S", "{" >> \o StructFieldsWords(fields) \o end \o rest
StructEnds == { << "}" >>, << ",", "}" >>, <<>> }
StructRests == { <<>>, << "pub" >> }
StructTexts ==
    { StructText(keyword, fields, end, rest) :
        keyword \in StructKeywords,
        fields \in SeqsOf(StructFields, 0, MaxStructFields),
        end \in StructEnds, rest \in StructRests }

InitStructs == InitParsing(StructTexts)
NextStructs == ParseTypeDefinition
SpecParseStructs == InitStructs /\ [][NextStructs]_vars

\* parse_function, on the tokens of a function with an empty body: its
\* parameters, and its return type.
MaxArguments == 2
ArgumentNames == { "a", "b" }
ArgumentTypes == { "T", "U" }
Arguments ==
    { [name |-> n, typ |-> t] : n \in ArgumentNames, t \in ArgumentTypes }
FunctionReturns == { <<>>, << "->", "T" >> }
FunctionEnds == { << "{", "}" >>, << "{" >>, <<>> }
FunctionText(arguments, return, end) ==
    << "fn", "f", "(" >> \o StructFieldsWords(arguments) \o << ")" >> \o return \o end
FunctionTexts ==
    { FunctionText(arguments, return, end) :
        arguments \in SeqsOf(Arguments, 0, MaxArguments),
        return \in FunctionReturns, end \in FunctionEnds }

ParseFunction ==
    /\ ~panicked
    /\ parsed.op = "none"
    /\ Returns("parse_function", parse_function(parser))

InitFunctions == InitParsing(FunctionTexts)
NextFunctions == ParseFunction
SpecParseFunctions == InitFunctions /\ [][NextFunctions]_vars

\* parse_statement and parse_block, on a statement, on a block of at most
\* MaxStatements statements, closed or not.
MaxStatements == 2
StatementTexts ==
    { <<"break">>, <<"continue">>, <<"break", ";">>, <<"return", "1", ";">>,
      <<"return", "1", ";", ";">>, <<"1", ";">>, <<"1", ";", ";">>,
      <<"let", "x", ":", "let", "T", "==", "1", ";", ";">> }
RECURSIVE Flatten(_)
Flatten(texts) == IF texts = <<>> THEN <<>> ELSE Head(texts) \o Flatten(Tail(texts))
BlockTexts ==
    { <<"{">> \o Flatten(statements) \o end :
        statements \in SeqsOf(StatementTexts, 0, MaxStatements),
        end \in { <<"}">>, <<>> } }

ParseStatement ==
    /\ ~panicked
    /\ parsed.op = "none"
    /\ Returns("parse_statement", parse_statement(parser))

ParseBlock ==
    /\ ~panicked
    /\ parsed.op = "none"
    /\ Returns("parse_block", parse_block(parser))

InitStatements == InitParsing(StatementTexts \cup BlockTexts)
NextStatements ==
    \/ ParseStatement
    \/ ParseBlock
SpecParseStatements == InitStatements /\ [][NextStatements]_vars

-----------------------------------------------------------------------------
(* The module loader (syntactic_parser/module.rs, module/mod.rs) on a file
   system.  A path is the sequence of its components, so that PathBuf's
   equality is the equality of sequences; '.' names the directory it is in.
   fs.manifest maps each directory that holds a manifest to the paths the
   manifest lists, fs.files each directory to its '.code' files, a map
   from the file name to the words of the file.                            *)

IsNormal(component) == component # "."
\* The directory that a path names.
Directory(path) == SelectSeq(path, IsNormal)
\* Path::parent, Path::join
Parent(path) == IF path = <<>> THEN None ELSE Some(SubSeq(path, 1, Len(path) - 1))
PathJoin(path, name) == Append(path, name)
\* path.join(manifest).exists()
HasManifest(fs, path) == Directory(path) \in DOMAIN fs.manifest

\* path_to_module_name: the last component, which the pool interns.
path_to_module_name(path) == path[Len(path)]

\* Result<T, Error> of the loader, together with the queue and the history
\* of the directories read.
LoadError(typ, msg) == [typ |-> typ, msg |-> msg, token |-> None]
LoadOk(value, queue, reads) ==
    [res |-> "ok", value |-> value, error |-> NoParseError, queue |-> queue,
     reads |-> reads]
LoadErr(err, queue, reads) ==
    [res |-> "err", value |-> NoNode, error |-> err, queue |-> queue,
     reads |-> reads]
\* A parse that fails, panics or never returns ends the load the same way.
LoadEnds(r, queue, reads) ==
    [res |-> r.res, value |-> NoNode, error |-> r.error, queue |-> queue,
     reads |-> reads]

\* parse_module_file: the names of the dependencies that are neither in the
\* queue nor parsed, each of which joins the queue.  The loop's result does
\* not depend on the order of the manifest.
parse_module_file(fs, module_path, queue, modules) ==
    IF ~HasManifest(fs, module_path)
    THEN [res |-> "err", error |-> LoadError("Io", "Failed to open module file"),
          value |-> {}, queue |-> queue]
    ELSE LET dependencies == fs.manifest[Directory(module_path)]
             added == { path \in dependencies :
                          ~(path \in queue
                            \/ path_to_module_name(path) \in DOMAIN modules) }
         IN [res |-> "ok", error |-> NoParseError,
             value |-> { path_to_module_name(path) : path \in added },
             queue |-> queue \cup added]

\* read_dir: the '.code' files and the directories with a manifest.
read_dir(fs, dir) ==
    IF Directory(dir) \notin DOMAIN fs.files
    THEN [res |-> "err", error |-> LoadError("Io", "Failed to read dir"),
          files |-> {}, dirs |-> {}]
    ELSE [res |-> "ok", error |-> NoParseError,
          files |-> { PathJoin(dir, name) : name \in DOMAIN fs.files[Directory(dir)] },
          dirs |-> { PathJoin(dir, path_to_module_name(d)) :
                       d \in { m \in DOMAIN fs.manifest :
                                 m # <<>> /\ Parent(m) = Some(Directory(dir)) } }]

\* parse_code, which lexes the file and parses its tokens.  The File of
\* the parser holds the names of its imports; the semantic parser reads
\* each import with its span, for which the span of the path of the file
\* stands.
PathSpan(path) == [path |-> path]
parse_code(fs, path, filename, module_name) ==
    With([file \in { parse(TokensOf(fs.files[Directory(Unwrap(Parent(path)))]
                                            [path_to_module_name(path)]),
                           filename, module_name) } |->
       IF file.res # "ok" THEN file
       ELSE [file EXCEPT !.value.imports = [name \in file.value.imports |->
                                             PathSpan(path)]]])

\* The loop of parse_module over the files.
RECURSIVE parse_module_files(_, _, _, _)
parse_module_files(fs, file_paths, module_name, files) ==
    IF file_paths = {} THEN [res |-> "ok", error |-> NoParseError, value |-> files]
    ELSE LET path == CHOOSE path \in file_paths : TRUE
             filename == path_to_module_name(path)
         IN With([file \in { parse_code(fs, path, filename, module_name) } |->
               IF file.res # "ok"
               THEN [res |-> file.res, error |-> file.error, value |-> files]
               ELSE parse_module_files(fs, file_paths \ { path }, module_name,
                                       MapInsert(files, filename, file.value))])

\* parse_module, and its loop over the submodules.
RECURSIVE parse_module(_, _, _, _, _)
RECURSIVE parse_submodules(_, _, _, _, _, _, _)
parse_submodules(fs, module_paths, files, submodules, queue, modules, reads) ==
    IF module_paths = {} THEN LoadOk(submodules, queue, reads)
    ELSE LET path == CHOOSE path \in module_paths : TRUE
             name == path_to_module_name(path)
         IN IF name \in DOMAIN files
            THEN LoadErr(LoadError("Module", "Submodule has the same name as a file"),
                         queue, reads)
            ELSE With([submodule \in { parse_module(fs, path, queue, modules, reads) } |->
                    IF submodule.res # "ok" THEN submodule
                    ELSE parse_submodules(fs, module_paths \ { path }, files,
                                          MapInsert(submodules, name, submodule.value),
                                          submodule.queue, modules, submodule.reads)])

parse_module(fs, module_path, queue, modules, reads) ==
    LET read == MapInsert(reads, Directory(module_path),
                          IF Directory(module_path) \in DOMAIN reads
                          THEN reads[Directory(module_path)] + 1 ELSE 1)
        dependencies == parse_module_file(fs, module_path, queue, modules)
    IN IF dependencies.res # "ok" THEN LoadErr(dependencies.error, queue, read)
       ELSE LET dir == read_dir(fs, module_path)
                module_name == path_to_module_name(module_path)
            IN IF dir.res # "ok" THEN LoadErr(dir.error, dependencies.queue, read)
               ELSE With([files \in { parse_module_files(fs, dir.files, module_name,
                                                        EmptyMap) } |->
                    IF files.res # "ok" THEN LoadEnds(files, dependencies.queue, read)
                    ELSE With([submodules \in
                                 { parse_submodules(fs, dir.dirs, files.value, EmptyMap,
                                                    dependencies.queue, modules, read) } |->
                         IF submodules.res # "ok" THEN submodules
                         ELSE LoadOk([path |-> module_path, name |-> module_name,
                                      files |-> files.value,
                                      submodules |-> submodules.value,
                                      dependencies |-> dependencies.value],
                                     submodules.queue, submodules.reads)])])

\* parse_modules, up to its loop: the entry is the only path in the queue.
parse_modules(module_path) ==
    /\ ~panicked
    /\ loader.state = "idle"
    /\ resolver.state = "idle"
    /\ loader' = [NotLoaded EXCEPT !.state = "loading", !.entry = module_path,
                                   !.queue = { module_path }]
    /\ UNCHANGED <<debug_build, poolVars, ret, panicked, histVars, lexVars, parseVars,
                   world, resolver, semantic>>

\* One turn of the loop 'while !queue.is_empty()' on a path of the queue:
\* the check of the parent, the parse of the module and of its submodules,
\* the insert and the remove.  The value is the loader after the turn.
parse_modules_loop(fs, load, path) ==
    IF Parent(path) # None /\ HasManifest(fs, Unwrap(Parent(path)))
    THEN [load EXCEPT !.state = "err",
                      !.error = LoadError("Module", "Importing non-top-level module")]
    ELSE With([module \in { parse_module(fs, path, load.queue, load.modules,
                                         load.reads) } |->
            IF module.res = "ok"
            THEN [load EXCEPT
                    !.modules = MapInsert(load.modules, path_to_module_name(path),
                                          module.value),
                    !.queue = module.queue \ { path },
                    !.reads = module.reads]
            ELSE [load EXCEPT !.state = module.res, !.error = module.error,
                              !.queue = module.queue, !.reads = module.reads]])

\* The turn is made on whichever path the iterator of the HashSet yields
\* first.
parse_modules_turn ==
    /\ ~panicked
    /\ loader.state = "loading"
    /\ loader.queue # {}
    /\ \E path \in loader.queue : loader' = parse_modules_loop(world, loader, path)
    /\ panicked' = (loader'.state = "panic")
    /\ UNCHANGED <<debug_build, poolVars, ret, histVars, lexVars, parseVars,
                   world, resolver, semantic>>

\* The end of the loop: Ok(Ast { entry, modules }).
parse_modules_end ==
    /\ ~panicked
    /\ loader.state = "loading"
    /\ loader.queue = {}
    /\ loader' = [loader EXCEPT !.state = "ok"]
    /\ UNCHANGED <<debug_build, poolVars, ret, panicked, histVars, lexVars, parseVars,
                   world, resolver, semantic>>

\* The syntax_ast::Ast that parse_modules returned.
LoadedAst == [entry |-> path_to_module_name(loader.entry), modules |-> loader.modules]

\* Definition::read_definition: the dependencies of the manifest.
read_definition(fs, directory) ==
    IF ~HasManifest(fs, directory)
    THEN [res |-> "err", error |-> "ModuleNotFound", dependencies |-> {}]
    ELSE [res |-> "ok", error |-> "",
          dependencies |-> fs.manifest[Directory(directory)]]

\* The orders in which a loop may meet the elements of a HashMap or HashSet.
Orderings(S) ==
    { s \in [1 .. Cardinality(S) -> S] :
        \A i, j \in 1 .. Cardinality(S) : i # j => s[i] # s[j] }

\* module::resolve, up to its loop.
resolve(path) ==
    /\ ~panicked
    /\ loader.state = "idle"
    /\ resolver.state = "idle"
    /\ resolver' = [NotResolved EXCEPT !.state = "resolving", !.queue = <<path>>]
    /\ UNCHANGED <<debug_build, poolVars, ret, panicked, histVars, lexVars, parseVars,
                   world, loader, semantic>>

\* One turn of 'while let Some(path) = queue.pop()': the definition is
\* read, each of its dependencies is pushed, the path is resolved.  A queue
\* that would grow beyond the bound ends the run of the model ("full").
MaxQueue == 3
resolve_turn ==
    /\ ~panicked
    /\ resolver.state = "resolving"
    /\ resolver.queue # <<>>
    /\ LET path == resolver.queue[Len(resolver.queue)]
           rest == SubSeq(resolver.queue, 1, Len(resolver.queue) - 1)
           def == read_definition(world, path)
       IN IF def.res # "ok"
          THEN resolver' = [resolver EXCEPT !.state = "err", !.error = def.error]
          ELSE \E pushed \in Orderings(def.dependencies) :
                  resolver' =
                    IF Len(rest \o pushed) > MaxQueue
                    THEN [resolver EXCEPT !.state = "full"]
                    ELSE [resolver EXCEPT !.queue = rest \o pushed,
                                          !.resolved = resolver.resolved \cup { path }]
    /\ UNCHANGED <<debug_build, poolVars, ret, panicked, histVars, lexVars, parseVars,
                   world, loader, semantic>>

\* The end of the loop: Ok(resolved).
resolve_end ==
    /\ ~panicked
    /\ resolver.state = "resolving"
    /\ resolver.queue = <<>>
    /\ resolver' = [resolver EXCEPT !.state = "ok"]
    /\ UNCHANGED <<debug_build, poolVars, ret, panicked, histVars, lexVars, parseVars,
                   world, loader, semantic>>

\* The file systems: the module directories a, b and c, c with or without
\* a submodule s, each with a manifest of at most MaxDependencies paths and
\* one file, which declares its module, imports every module that the
\* manifest names and ends with one of the bodies.  './b' is the directory
\* b under another path, 'd' is no directory.
MaxDependencies == 2
MainFile == "main.code"
ModuleDirs == { <<"a">>, <<"b">>, <<"c">> }
SubmoduleDir == <<"c", "s">>
EntryPath == <<"a">>
EntryDependencies == ModuleDirs \cup { <<".", "b">>, <<"d">> }
Manifests(paths) == { m \in SUBSET paths : Cardinality(m) <= MaxDependencies }
SubmoduleManifests == { {}, { <<"a">> } }
Bodies ==
    { <<>>,
      <<"pub", "fn", "f", "(", ")", "{", "}">>,
      <<"pub", "fn", "f", "(", ")", "{", "break", "}">>,
      <<"pub", "enum", "E", "{", "A", "}", "prv", "let", "g", ":", "T", "==", "1",
        ";", ";">> }
RECURSIVE ImportLines(_)
ImportLines(names) ==
    IF names = {} THEN <<>>
    ELSE LET name == CHOOSE name \in names : TRUE
         IN <<"import", name, ";">> \o ImportLines(names \ { name })
ModuleText(dir, manifest, body) ==
    <<"module", path_to_module_name(dir)>>
    \o ImportLines({ path_to_module_name(path) : path \in manifest }) \o body
FileSystem(manifest, body) ==
    [manifest |-> manifest,
     files |-> [dir \in DOMAIN manifest |->
                  [name \in { MainFile } |-> ModuleText(dir, manifest[dir], body)]]]
FileSystems ==
    { FileSystem(manifest, body) :
        manifest \in
          { [dir \in ModuleDirs \cup subdirs |->
               IF dir = EntryPath THEN entry
               ELSE IF dir = <<"b">> THEN b
               ELSE IF dir = <<"c">> THEN c ELSE s] :
              entry \in Manifests(EntryDependencies),
              b \in Manifests(ModuleDirs), c \in Manifests(ModuleDirs),
              s \in SubmoduleManifests, subdirs \in { {}, { SubmoduleDir } } },
        body \in Bodies }

-----------------------------------------------------------------------------
(* The semantic parser (semantic_parser/mod.rs).  An RwArc is a handle, the
   position of its value in the heap, so that two clones of an RwArc are
   the same handle; sp is the SemanticParser with the heap, the record
   [type_id, heap].  A loop over a HashMap or a HashSet meets the keys in
   one of two opposite orders.                                             *)

RwArcNew(sp, value) ==
    [sp |-> [sp EXCEPT !.heap = Append(sp.heap, value)], value |-> Len(sp.heap) + 1]

RECURSIVE KeySeq(_)
KeySeq(keys) ==
    IF keys = {} THEN <<>>
    ELSE LET key == CHOOSE key \in keys : TRUE
         IN <<key>> \o KeySeq(keys \ { key })
Backwards(s) == [i \in 1 .. Len(s) |-> s[Len(s) + 1 - i]]
IterKeys(keys, reversed) == IF reversed THEN Backwards(KeySeq(keys)) ELSE KeySeq(keys)

TypeU8 == [kind |-> "U8"]
TypeCustom(handle) == [kind |-> "Custom", v |-> handle]
SemanticError(typ, msg, span) == Some([typ |-> typ, msg |-> msg, span |-> span])

build_global_skeleton(sp, global) ==
    LET new == RwArcNew(sp, [name |-> global.value.name,
                             mutable |-> global.value.mutable,
                             typ |-> TypeU8,
                             value |-> [value |-> [kind |-> "Literal",
                                                   literal |-> [kind |-> "UInt", v |-> 0]],
                                        typ |-> TypeU8,
                                        span |-> global.value.value.span],
                             span |-> global.value.span])
    IN [sp |-> new.sp, value |-> Scope(global.visibility, new.value)]

\* The loop of build_function_skeleton over the arguments.
RECURSIVE build_function_arguments(_, _, _)
build_function_arguments(sp, arguments, built) ==
    IF arguments = <<>> THEN [sp |-> sp, value |-> built]
    ELSE LET argument == Head(arguments)
             new == RwArcNew(sp, [name |-> argument.name, typ |-> TypeU8,
                                  span |-> argument.span])
         IN build_function_arguments(new.sp, Tail(arguments), Append(built, new.value))

build_function_skeleton(sp, function) ==
    LET arguments == build_function_arguments(sp, function.value.arguments, <<>>)
        new == RwArcNew(arguments.sp, [name |-> function.value.name,
                                       arguments |-> arguments.value,
                                       return_type |-> None,
                                       body |-> <<>>,
                                       span |-> function.value.span])
    IN [sp |-> new.sp, value |-> Scope(function.visibility, new.value)]

\* build_type_skeleton: the id is the counter, which then grows by one.
build_type_skeleton_same_id(sp, typ) ==
    LET new == RwArcNew(sp, [id |-> sp.type_id, name |-> typ.value.name,
                             body |-> AliasBody(TypeU8), size |-> 0,
                             span |-> typ.value.span])
    IN [sp |-> new.sp, value |-> Scope(typ.visibility, new.value)]
build_type_skeleton(sp, typ) ==
    LET syn == typ.value.body
        body == IF syn.kind = "Struct"
                THEN StructBody([name \in DOMAIN syn.v |-> TypeU8])
                ELSE IF syn.kind = "Enum"
                THEN EnumBody([name \in DOMAIN syn.v |-> 0])
                ELSE IF syn.kind = "Union"
                THEN UnionBody([name \in DOMAIN syn.v |-> TypeU8])
                ELSE AliasBody(TypeU8)
        id == sp.type_id
        new == RwArcNew([sp EXCEPT !.type_id = sp.type_id + 1],
                        [id |-> id, name |-> typ.value.name, body |-> body,
                         size |-> 0, span |-> typ.value.span])
    IN [sp |-> new.sp, value |-> Scope(typ.visibility, new.value)]

\* The three loops of collect_file_names.
RECURSIVE collect_globals(_, _, _, _)
collect_globals(sp, file, names, globals) ==
    IF names = <<>> THEN [sp |-> sp, value |-> globals]
    ELSE LET new == build_global_skeleton(sp, file.globals[Head(names)])
         IN collect_globals(new.sp, file, Tail(names),
                            MapInsert(globals, Head(names), new.value))
RECURSIVE collect_functions(_, _, _, _)
collect_functions(sp, file, names, functions) ==
    IF names = <<>> THEN [sp |-> sp, value |-> functions]
    ELSE LET new == build_function_skeleton(sp, file.functions[Head(names)])
         IN collect_functions(new.sp, file, Tail(names),
                              MapInsert(functions, Head(names), new.value))
RECURSIVE collect_types(_, _, _, _)
collect_types(sp, file, names, types) ==
    IF names = <<>> THEN [sp |-> sp, value |-> types]
    ELSE LET new == build_type_skeleton(sp, file.types[Head(names)])
         IN collect_types(new.sp, file, Tail(names),
                          MapInsert(types, Head(names), new.value))

collect_file_names(sp, file, reversed) ==
    LET globals == collect_globals(sp, file, IterKeys(DOMAIN file.globals, reversed),
                                   EmptyMap)
        functions == collect_functions(globals.sp, file,
                                       IterKeys(DOMAIN file.functions, reversed), EmptyMap)
        types == collect_types(functions.sp, file,
                               IterKeys(DOMAIN file.types, reversed), EmptyMap)
    IN [sp |-> types.sp,
        value |-> [name |-> file.name, module |-> file.module, imports |-> EmptyMap,
                   globals |-> globals.value, functions |-> functions.value,
                   types |-> types.value]]

\* collect_module_names and its two loops.
RECURSIVE collect_files(_, _, _, _, _)
collect_files(sp, module, names, files, reversed) ==
    IF names = <<>> THEN [sp |-> sp, value |-> files]
    ELSE LET new == collect_file_names(sp, module.files[Head(names)], reversed)
         IN collect_files(new.sp, module, Tail(names),
                          MapInsert(files, Head(names), new.value), reversed)
RECURSIVE collect_module_names(_, _, _)
RECURSIVE collect_submodules(_, _, _, _, _)
collect_submodules(sp, module, names, submodules, reversed) ==
    IF names = <<>> THEN [sp |-> sp, value |-> submodules]
    ELSE LET new == collect_module_names(sp, module.submodules[Head(names)], reversed)
         IN collect_submodules(new.sp, module, Tail(names),
                               MapInsert(submodules, Head(names), new.value), reversed)
collect_module_names(sp, module, reversed) ==
    LET submodules == collect_submodules(sp, module,
                                         IterKeys(DOMAIN module.submodules, reversed),
                                         EmptyMap, reversed)
        files == collect_files(submodules.sp, module,
                               IterKeys(DOMAIN module.files, reversed), EmptyMap, reversed)
    IN RwArcNew(files.sp, [name |-> module.name, files |-> files.value,
                           submodules |-> submodules.value])

\* collect_names and its loop.
RECURSIVE collect_modules(_, _, _, _, _)
collect_modules(sp, ast, names, modules, reversed) ==
    IF names = <<>> THEN [sp |-> sp, value |-> modules]
    ELSE LET new == collect_module_names(sp, ast.modules[Head(names)], reversed)
         IN collect_modules(new.sp, ast, Tail(names),
                            MapInsert(modules, Head(names), new.value), reversed)
collect_names(sp, ast, reversed) ==
    LET modules == collect_modules(sp, ast, IterKeys(DOMAIN ast.modules, reversed),
                                   EmptyMap, reversed)
    IN [sp |-> modules.sp, value |-> [entry |-> ast.entry, modules |-> modules.value]]

\* resolve_module_deps
resolve_module_deps(syn_module, sem_ast) ==
    IF \E dep \in syn_module.dependencies : dep \notin DOMAIN sem_ast.modules
    THEN [res |-> "err",
          error |-> SemanticError("Import", "Dependency doesn't exist",
                                  [path |-> syn_module.path])]
    ELSE [res |-> "ok", error |-> None]

\* resolve_file_imports, the loop over the imports of the file in the order
\* 'imports': the Err of the first import that is no dependency of the
\* module, the panic of the unwrap when the Ast has no module of the name,
\* or the clone of the handle in the imports of the file.
resolve_file_imports_undeclared(syn_module, syn_file, sem_file, sem_ast, imports) ==
    [res |-> "ok", error |-> None,
     sem_file |-> [sem_file EXCEPT
                     !.imports = [import \in DOMAIN syn_file.imports
                                               \cap DOMAIN sem_ast.modules |->
                                    sem_ast.modules[import]]]]
RECURSIVE resolve_file_imports(_, _, _, _, _)
resolve_file_imports(syn_module, syn_file, sem_file, sem_ast, imports) ==
    IF imports = <<>> THEN [res |-> "ok", error |-> None, sem_file |-> sem_file]
    ELSE LET import == Head(imports)
             span == syn_file.imports[import]
         IN IF import \notin syn_module.dependencies
            THEN [res |-> "err",
                  error |-> SemanticError("Import", "Importing undeclared module", span),
                  sem_file |-> sem_file]
            ELSE IF import \notin DOMAIN sem_ast.modules
            THEN [res |-> "panic", error |-> None, sem_file |-> sem_file]
            ELSE resolve_file_imports(
                     syn_module, syn_file,
                     [sem_file EXCEPT
                        !.imports = MapInsert(sem_file.imports, import,
                                              sem_ast.modules[import])],
                     sem_ast, Tail(imports))

\* keyword_to_primitive, on the TokenType of a keyword.
PrimitiveKeywords ==
    { "U8", "U16", "U32", "U64", "Usize", "I8", "I16", "I32", "I64", "Isize",
      "F32", "F64", "Bool" }
keyword_to_primitive(kwd) ==
    IF kwd \in PrimitiveKeywords THEN Some([kind |-> kwd]) ELSE None

\* resolve_immediate_type; intern_pool::is_keyword and get_keyword are the
\* table of the keywords.
resolve_immediate_type(sem_file, type_name, span) ==
    LET found == IF type_name \in KeywordStrings
                 THEN keyword_to_primitive(
                          TOKEN_TYPES_ENUM[CHOOSE i \in TablePositions(type_name) : TRUE])
                 ELSE IF type_name \in DOMAIN sem_file.types
                 THEN Some(TypeCustom(sem_file.types[type_name].value))
                 ELSE None
    IN IF found # None THEN [res |-> "ok", value |-> Unwrap(found), error |-> None]
       ELSE [res |-> "err", value |-> TypeU8,
             error |-> SemanticError("Type", "Can't resolve type name", span)]

\* resolve_type_annot: its first statement is todo!(), a panic; nothing
\* after it runs.
resolve_type_annot(sem_file, type_annot) ==
    [res |-> "panic", value |-> TypeU8, error |-> None]

\* resolve_type, on the heap: the size of an enum, the target of an alias,
\* and for each field of a struct the unwrap of the type that the file
\* has under the name of the field.  type_status is not read.
resolve_type(heap, sem_file, syn_typ, sem_typ, type_status) ==
    LET body == syn_typ.body
    IN IF body.kind = "Enum"
       THEN [res |-> "ok", error |-> None,
             heap |-> [heap EXCEPT ![sem_typ].size = 8]]
       ELSE IF body.kind = "Alias"
       THEN LET alias == resolve_type_annot(sem_file, body.v)
            IN IF alias.res # "ok"
               THEN [res |-> alias.res, error |-> alias.error, heap |-> heap]
               ELSE [res |-> "ok", error |-> None,
                     heap |-> [heap EXCEPT ![sem_typ].body = AliasBody(alias.value)]]
       ELSE IF body.kind = "Struct"
       THEN IF \E field_name \in DOMAIN body.v : field_name \notin DOMAIN sem_file.types
            THEN [res |-> "panic", error |-> None, heap |-> heap]
            ELSE [res |-> "ok", error |-> None, heap |-> heap]
       ELSE [res |-> "ok", error |-> None, heap |-> heap]

\* The modules of a syntax Ast and those below them, each by the names
\* that lead to it, and the module, or the handle of the semantic module,
\* at the end of the names.
ModulePaths(ast) ==
    { <<name>> : name \in DOMAIN ast.modules }
    \cup UNION { { <<name, submodule>> :
                     submodule \in DOMAIN ast.modules[name].submodules } :
                 name \in DOMAIN ast.modules }
SyntaxModule(ast, names) ==
    IF Len(names) = 1 THEN ast.modules[names[1]]
    ELSE ast.modules[names[1]].submodules[names[2]]
SemanticModule(heap, ast, names) ==
    IF Len(names) = 1 THEN ast.modules[names[1]]
    ELSE heap[ast.modules[names[1]]].submodules[names[2]]

\* The type annotations of a file: of its globals, of the arguments of its
\* functions, of the fields of its structs and unions, of its aliases.
Annotations(file) ==
    { file.globals[name].value.typ : name \in DOMAIN file.globals }
    \cup UNION { { file.functions[name].value.arguments[i].typ :
                     i \in 1 .. Len(file.functions[name].value.arguments) } :
                 name \in DOMAIN file.functions }
    \cup UNION { LET body == file.types[name].value.body
                 IN IF body.kind = "Alias" THEN { body.v }
                    ELSE IF body.kind = "Enum" THEN {}
                    ELSE { body.v[field] : field \in DOMAIN body.v } :
                 name \in DOMAIN file.types }

\* The module, the file and the type or the annotation that a call is for.
SemanticCall(module, file, name, annot) ==
    [module |-> module, file |-> file, name |-> name, annot |-> annot]

\* Pass 1: collect_names on the Ast that parse_modules returned, by a new
\* SemanticParser.
CollectNames ==
    /\ ~panicked
    /\ loader.state = "ok"
    /\ semantic.op = "none"
    /\ \E reversed \in BOOLEAN :
          \E collected \in { collect_names([type_id |-> semantic.type_id,
                                            heap |-> semantic.heap],
                                           LoadedAst, reversed) } :
             semantic' = [semantic EXCEPT !.type_id = collected.sp.type_id,
                                          !.heap = collected.sp.heap,
                                          !.ast = Some(collected.value),
                                          !.op = "collect_names",
                                          !.res = "ok"]
    /\ UNCHANGED <<debug_build, poolVars, ret, panicked, histVars, lexVars, parseVars,
                   world, loader, resolver>>

\* Pass 2 makes one call on the skeletons, for a module and a file of it.
\* resolve_module_deps
ResolveModuleDeps ==
    /\ ~panicked
    /\ semantic.op = "collect_names"
    /\ \E names \in ModulePaths(LoadedAst) :
          \E r \in { resolve_module_deps(SyntaxModule(LoadedAst, names),
                                         Unwrap(semantic.ast)) } :
             semantic' = [semantic EXCEPT !.op = "resolve_module_deps",
                                          !.res = r.res, !.error = r.error,
                                          !.call = SemanticCall(names, "", "", NoNode)]
    /\ UNCHANGED <<debug_build, poolVars, ret, panicked, histVars, lexVars, parseVars,
                   world, loader, resolver>>

\* resolve_file_imports, which fills the imports of the semantic file.
ResolveFileImports ==
    /\ ~panicked
    /\ semantic.op = "collect_names"
    /\ \E names \in ModulePaths(LoadedAst), reversed \in BOOLEAN :
          \E file \in DOMAIN SyntaxModule(LoadedAst, names).files :
             \E module \in { SemanticModule(semantic.heap, Unwrap(semantic.ast), names) } :
                \E r \in { resolve_file_imports(
                               SyntaxModule(LoadedAst, names),
                               SyntaxModule(LoadedAst, names).files[file],
                               semantic.heap[module].files[file],
                               Unwrap(semantic.ast),
                               IterKeys(DOMAIN SyntaxModule(LoadedAst, names)
                                                  .files[file].imports, reversed)) } :
                   /\ semantic' = [semantic EXCEPT
                                     !.heap[module].files[file] = r.sem_file,
                                     !.op = "resolve_file_imports",
                                     !.res = r.res, !.error = r.error,
                                     !.call = SemanticCall(names, file, "", NoNode)]
                   /\ panicked' = (r.res = "panic")
    /\ UNCHANGED <<debug_build, poolVars, ret, histVars, lexVars, parseVars,
                   world, loader, resolver>>

\* resolve_type_annot, on an annotation of the file.
ResolveTypeAnnot ==
    /\ ~panicked
    /\ semantic.op = "collect_names"
    /\ \E names \in ModulePaths(LoadedAst) :
          \E file \in DOMAIN SyntaxModule(LoadedAst, names).files :
             \E type_annot \in Annotations(SyntaxModule(LoadedAst, names).files[file]) :
                \E module \in { SemanticModule(semantic.heap, Unwrap(semantic.ast),
                                               names) } :
                   \E r \in { resolve_type_annot(semantic.heap[module].files[file],
                                                 type_annot) } :
                      /\ semantic' = [semantic EXCEPT
                                        !.op = "resolve_type_annot",
                                        !.res = r.res, !.error = r.error,
                                        !.value = r.value,
                                        !.call = SemanticCall(names, file, "", type_annot)]
                      /\ panicked' = (r.res = "panic")
    /\ UNCHANGED <<debug_build, poolVars, ret, histVars, lexVars, parseVars,
                   world, loader, resolver>>

\* resolve_type, on a type of the file, every type Unvisited.
ResolveType ==
    /\ ~panicked
    /\ semantic.op = "collect_names"
    /\ \E names \in ModulePaths(LoadedAst) :
          \E file \in DOMAIN SyntaxModule(LoadedAst, names).files :
             \E name \in DOMAIN SyntaxModule(LoadedAst, names).files[file].types :
                \E module \in { SemanticModule(semantic.heap, Unwrap(semantic.ast),
                                               names) } :
                   \E r \in { resolve_type(
                                  semantic.heap,
                                  semantic.heap[module].files[file],
                                  SyntaxModule(LoadedAst, names).files[file]
                                      .types[name].value,
                                  semantic.heap[module].files[file].types[name].value,
                                  [id \in 0 .. semantic.type_id - 1 |-> "Unvisited"]) } :
                      /\ semantic' = [semantic EXCEPT
                                        !.heap = r.heap,
                                        !.op = "resolve_type",
                                        !.res = r.res, !.error = r.error,
                                        !.call = SemanticCall(names, file, name, NoNode)]
                      /\ panicked' = (r.res = "panic")
    /\ UNCHANGED <<debug_build, poolVars, ret, histVars, lexVars, parseVars,
                   world, loader, resolver>>

\* The syntax Asts that the semantic parser is given: the modules a and b,
\* a with or without a submodule s, each with the dependencies and the
\* file that declares it; the file of a imports some of a, b and x and
\* holds one of the contents, the file of b may import a and holds an
\* enum.  The dependencies of a module are modules of the Ast, as
\* parse_modules leaves them.
SpanAt(index) == [line |-> 1, column |-> index + 1, index |-> index, size |-> 1]
Annot(name, modifiers, index) ==
    [base |-> [kind |-> "Normal", v |-> name], modifiers |-> modifiers,
     span |-> SpanAt(index)]
SyntaxType(name, visibility, body, index) ==
    Scope(visibility, [name |-> name, body |-> body, span |-> SpanAt(index)])
SyntaxGlobal(name, visibility, mutable, typ, index) ==
    Scope(visibility,
          [name |-> name, mutable |-> mutable, typ |-> typ,
           value |-> [value |-> [kind |-> "Literal",
                                 literal |-> [kind |-> "UInt", v |-> 1]],
                      span |-> SpanAt(index + 4)],
           span |-> SpanAt(index)])
SyntaxFunction(name, visibility, arguments, index) ==
    Scope(visibility,
          [name |-> name, arguments |-> arguments, return_type |-> None,
           body |-> [kind |-> "Normal", v |-> <<>>], span |-> SpanAt(index)])
OneEnum ==
    [E \in { "E" } |-> SyntaxType("E", "Private", EnumBody([n \in { "A" } |-> 1]), 30)]
FileContents ==
    { [types |-> EmptyMap, globals |-> EmptyMap, functions |-> EmptyMap],
      \* a struct that holds itself, an enum and a union
      [types |-> [n \in { "S", "E", "U" } |->
                    IF n = "S"
                    THEN SyntaxType("S", "Public",
                                    StructBody([f \in { "x" } |->
                                                  Annot(<<"S">>, <<>>, 44)]), 40)
                    ELSE IF n = "E"
                    THEN SyntaxType("E", "Private",
                                    EnumBody([f \in { "A", "B" } |->
                                                IF f = "A" THEN 1 ELSE 2]), 50)
                    ELSE SyntaxType("U", "Module",
                                    UnionBody([f \in { "y" } |->
                                                 Annot(<<"E">>, <<>>, 64)]), 60)],
       globals |-> EmptyMap, functions |-> EmptyMap],
      \* an alias of itself, a struct whose field has the name of a type
      \* and a union that holds itself
      [types |-> [n \in { "x", "S", "U" } |->
                    IF n = "x"
                    THEN SyntaxType("x", "Public",
                                    AliasBody(Annot(<<"x">>, <<>>, 44)), 40)
                    ELSE IF n = "S"
                    THEN SyntaxType("S", "Private",
                                    StructBody([f \in { "x" } |->
                                                  Annot(<<"x">>, <<>>, 54)]), 50)
                    ELSE SyntaxType("U", "Module",
                                    UnionBody([f \in { "u" } |->
                                                 Annot(<<"U">>, <<>>, 64)]), 60)],
       globals |-> EmptyMap, functions |-> EmptyMap],
      \* an enum, a global of its type, a global of no type, functions
      [types |-> OneEnum,
       globals |-> [n \in { "g", "h" } |->
                      IF n = "g"
                      THEN SyntaxGlobal("g", "Private", FALSE,
                                        Annot(<<"E">>, <<>>, 42), 40)
                      ELSE SyntaxGlobal("h", "Public", TRUE,
                                        Annot(<<"T">>, <<>>, 52), 50)],
       functions |-> [n \in { "f", "main" } |->
                        IF n = "f"
                        THEN SyntaxFunction("f", "Module",
                                            << [name |-> "a",
                                                typ |-> Annot(<<"E">>, <<>>, 64),
                                                span |-> SpanAt(62)],
                                               [name |-> "b",
                                                typ |-> Annot(<<"fn">>, <<>>, 68),
                                                span |-> SpanAt(66)] >>, 60)
                        ELSE SyntaxFunction("main", "Public", <<>>, 70)]] }
ImportNames == { "a", "b", "x" }
ImportSpan(name) == SpanAt(IF name = "a" THEN 10 ELSE IF name = "b" THEN 20 ELSE 30)
SyntaxFile(module, imports, content) ==
    [name |-> MainFile, module |-> module,
     imports |-> [name \in imports |-> ImportSpan(name)],
     globals |-> content.globals, functions |-> content.functions,
     types |-> content.types]
SyntaxModuleOf(path, dependencies, file, submodules) ==
    [path |-> path, name |-> path_to_module_name(path),
     files |-> [name \in { MainFile } |-> file],
     submodules |-> submodules, dependencies |-> dependencies]
SyntaxAsts ==
    { [a \in { "a", "b" } |->
         IF a = "a"
         THEN SyntaxModuleOf(<<"a">>, deps_a, SyntaxFile("a", imports_a, content),
                             [s \in submodules |->
                                SyntaxModuleOf(<<"a", "s">>, {},
                                               SyntaxFile("s", {},
                                                          [types |-> OneEnum,
                                                           globals |-> EmptyMap,
                                                           functions |-> EmptyMap]),
                                               EmptyMap)])
         ELSE SyntaxModuleOf(<<"b">>, deps_b,
                             SyntaxFile("b", imports_b,
                                        [types |-> OneEnum, globals |-> EmptyMap,
                                         functions |-> EmptyMap]),
                             EmptyMap)] :
        deps_a \in SUBSET { "a", "b" }, deps_b \in { {}, { "a" } },
        imports_a \in SUBSET ImportNames, imports_b \in { {}, { "a" } },
        content \in FileContents, submodules \in { {}, { "s" } } }

\* parse_modules has returned one of the Asts.
InitSemantic ==
    /\ debug_build \in BOOLEAN
    /\ InitPool
    /\ ret = Returned("new", "", None)
    /\ panicked = FALSE
    /\ InitLexer
    /\ files_left = 0
    /\ InitParser
    /\ world = NoWorld
    /\ \E modules \in SyntaxAsts :
          loader = [NotLoaded EXCEPT !.state = "ok", !.entry = EntryPath,
                                     !.modules = modules]
    /\ resolver = NotResolved
    /\ semantic = NoSemantic

NextSemantic ==
    \/ CollectNames
    \/ ResolveModuleDeps
    \/ ResolveFileImports
    \/ ResolveTypeAnnot
    \/ ResolveType

SpecSemantic == InitSemantic /\ [][NextSemantic]_vars

-----------------------------------------------------------------------------
(* The specifications of the loader.                                       *)

\* The loader before its call, on one of the file systems.
InitLoading(systems) ==
    /\ debug_build \in BOOLEAN
    /\ InitPool
    /\ ret = Returned("new", "", None)
    /\ panicked = FALSE
    /\ InitLexer
    /\ files_left = 0
    /\ InitParser
    /\ world \in systems
    /\ loader = NotLoaded
    /\ resolver = NotResolved
    /\ semantic = NoSemantic

InitLoadModules == InitLoading(FileSystems)

NextLoadModules ==
    \/ parse_modules(EntryPath)
    \/ parse_modules_turn
    \/ parse_modules_end
    \/ resolve(EntryPath)
    \/ resolve_turn
    \/ resolve_end
    \/ CollectNames
    \/ ResolveFileImports

SpecLoadModules == InitLoadModules /\ [][NextLoadModules]_vars

\* module::resolve runs on: a sequential program takes its next step, so a
\* call of resolve is made, each turn of its loop is taken and its return
\* is reached.  The file systems are those without a submodule whose
\* manifests name at most one path.
LiveFileSystems ==
    { fs \in FileSystems :
        /\ SubmoduleDir \notin DOMAIN fs.manifest
        /\ \A dir \in DOMAIN fs.manifest : Cardinality(fs.manifest[dir]) <= 1 }
InitLiveLoad == InitLoading(LiveFileSystems)
LiveLoadModules ==
    /\ InitLiveLoad
    /\ [][NextLoadModules]_vars
    /\ WF_vars(resolve_turn)
    /\ WF_vars(resolve_end)

-----------------------------------------------------------------------------
(* Claims about the intern pool, checked under Spec.                       *)

InsertCalls == { "insert_symbol", "insert_path" }
LookupCalls == { "symbol_reverse_lookup", "path_reverse_lookup" }
GrowthCalls == InsertCalls \cup { "search_symbol" }

\* The last call was `op`, made in the growth phase, and it returned.
GrowthCall(op) == ~Frozen /\ ret.op = op /\ ~ret.panic

\* C1 (state part): in the growth phase every insert_symbol(s) returns the
\* id that the first insert_symbol(s) returned, every insert_path(p) the id
\* of the first insert_path(p); search_symbol(s) returns the id that
\* insert_symbol(s) returned when s was inserted, an id that a later insert
\* of s returns too when s is a keyword, and None otherwise.
C1_SameId ==
    /\ GrowthCall("insert_symbol") =>
          /\ ret.val = Some(hist_symbol[ret.arg])
          /\ InternSearch(symbol_pool, ret.arg) = ret.val
    /\ GrowthCall("insert_path") => ret.val = Some(hist_path[ret.arg])
    /\ GrowthCall("search_symbol") =>
          IF ret.arg \in DOMAIN hist_symbol
          THEN ret.val = Some(hist_symbol[ret.arg])
          ELSE IF ret.arg \in KeywordStrings
               THEN ret.val # None /\ ret.val = InternSearch(symbol_pool, ret.arg)
               ELSE ret.val = None
    /\ ~Frozen => \A s \in DOMAIN hist_symbol :
                     InternSearch(symbol_pool, s) = Some(hist_symbol[s])

\* C1 (step part): in the growth phase an insert of a string (path) that is
\* already interned leaves the id counter alone, and no call changes the id
\* of an interned string (path).
C1_RepeatedInsert ==
    /\ (GrowthCall("insert_symbol")' /\ ret'.arg \in DOMAIN symbol_pool)
          => symbol_counter' = symbol_counter
    /\ (GrowthCall("insert_path")' /\ ret'.arg \in DOMAIN path_pool)
          => path_counter' = path_counter
    /\ ~Frozen' => /\ \A s \in DOMAIN symbol_pool :
                         InternSearch(symbol_pool', s) = Some(symbol_pool[s])
                   /\ \A q \in DOMAIN path_pool :
                         InternSearch(path_pool', q) = Some(path_pool[q])

\* C1: insert_symbol and insert_path are idempotent in the growth phase, a
\* repeated insert does not advance the counter, and search_symbol agrees
\* with insert_symbol.
C1_InsertIdempotent == [](C1_SameId) /\ [][C1_RepeatedInsert]_vars

\* C1 witness: "x" was interned first, then "", and the last call, a second
\* insert_symbol("x"), returned the id of the first; a path is interned too.
C1_Witness ==
    /\ GrowthCall("insert_symbol")
    /\ ret.arg = "x"
    /\ ret.val = Some(KeywordCount)
    /\ symbol_counter = KeywordCount + 2
    /\ path_counter = 2

\* C2: once the pool is frozen, every string interned in the growth phase
\* (the keywords included) is what symbol_reverse_lookup returns for its
\* id, and every path what path_reverse_lookup returns for its id; two
\* strings (paths) never share an id, and every id below the counter that
\* the growth phase reached resolves to exactly one interned string (path).
C2_RoundTrip ==
    Frozen =>
      LET srev == Unwrap(symbol_reverse)
          prev == Unwrap(path_reverse)
          fc == Unwrap(frozen_counter)
      IN /\ symbol_reverse # None /\ path_reverse # None
         /\ \A s \in DOMAIN hist_symbol :
               ReverseGet(srev, hist_symbol[s]) = Some(s)
         /\ \A q \in DOMAIN hist_path :
               ReverseGet(prev, hist_path[q]) = Some(q)
         /\ \A s \in KeywordStrings : \E id \in 0 .. (fc[1] - 1) :
               ReverseGet(srev, id) = Some(s)
         /\ \A s, u \in DOMAIN hist_symbol :
               hist_symbol[s] = hist_symbol[u] => s = u
         /\ \A q, u \in DOMAIN hist_path :
               hist_path[q] = hist_path[u] => q = u
         /\ Len(srev) = fc[1] /\ Len(prev) = fc[2]
         /\ \A id \in 0 .. (fc[1] - 1) :
               /\ ReverseGet(srev, id) # None
               /\ Unwrap(ReverseGet(srev, id)) \in DOMAIN hist_symbol \cup KeywordStrings
               /\ \A id2 \in 0 .. (fc[1] - 1) :
                     ReverseGet(srev, id2) = ReverseGet(srev, id) => id2 = id
         /\ \A id \in 0 .. (fc[2] - 1) :
               /\ ReverseGet(prev, id) # None
               /\ Unwrap(ReverseGet(prev, id)) \in DOMAIN hist_path
               /\ \A id2 \in 0 .. (fc[2] - 1) :
                     ReverseGet(prev, id2) = ReverseGet(prev, id) => id2 = id
         /\ (ret.op = "symbol_reverse_lookup" /\ ~ret.panic) =>
               \A s \in DOMAIN hist_symbol :
                  ret.arg = hist_symbol[s] => ret.val = Some(s)
         /\ (ret.op = "path_reverse_lookup" /\ ~ret.panic) =>
               \A q \in DOMAIN hist_path :
                  ret.arg = hist_path[q] => ret.val = Some(q)

\* C2 witness: "" and "x" and two paths were interned, and the last call,
\* a reverse lookup of the id of "x", returned "x".
C2_Witness ==
    /\ Frozen
    /\ DOMAIN hist_symbol = { "", "x" }
    /\ DOMAIN hist_path = Paths
    /\ ret.op = "symbol_reverse_lookup"
    /\ ret.arg = hist_symbol["x"]
    /\ ret.val = Some("x")

\* C3 (state part): the two halves of the pool are frozen together, and a
\* reverse lookup that returned has left the pool frozen.
C3_Together ==
    /\ (symbol_reverse # None) <=> (path_reverse # None)
    /\ (ret.op \in LookupCalls /\ ~ret.panic) => Frozen

\* C3 (step part): only a reverse lookup freezes the pool, and a frozen pool
\* stays frozen with the reverse tables it has.
C3_OneWay ==
    /\ (~Frozen /\ Frozen') => ret'.op \in LookupCalls
    /\ Frozen => /\ symbol_reverse' = symbol_reverse
                 /\ path_reverse' = path_reverse

\* C3: a new pool is in the growth phase; the first reverse lookup freezes
\* both halves; a frozen pool never returns to the growth phase and its
\* reverse tables are never rebuilt or changed.
C3_Lifecycle == ~Frozen /\ [](C3_Together) /\ [][C3_OneWay]_vars

\* C3 witness: a lookup froze the pool that holds "x" and a path, a late
\* insert or search followed (build without debug assertions), and the
\* symbol lookup made after it still resolves "x" from the frozen table.
C3_Witness ==
    /\ Frozen
    /\ ret.op = "symbol_reverse_lookup"
    /\ ret.val = Some("x")
    /\ Unwrap(frozen_counter) = <<KeywordCount + 1, 1>>
    /\ late_calls = 1

\* C4 (as claimed): after the freeze every insert_symbol, insert_path and
\* search_symbol trips the phase check, the counters keep the value they had
\* at the freeze, and no id is handed out that a reverse lookup cannot
\* resolve.
C4_LateCallsFail ==
    (Frozen /\ ret.op \in GrowthCalls) =>
       /\ ret.panic
       /\ <<symbol_counter, path_counter>> = Unwrap(frozen_counter)

\* C5: the i-th table entry has id i in every pool (as a key in the growth
\* phase, as a table index once frozen); an id in the pool is a keyword id
\* iff its string is a table string; get_keyword of the id of a table string
\* is the token kind at the string's place in the table; an insert_symbol
\* in the growth phase returns the table index for a table string and an id
\* >= K for any other string.
C5_KeywordPrefix ==
    /\ \A id \in SymbolIds : is_keyword(id) <=> id < KeywordCount
    /\ ~Frozen =>
          /\ \A i \in 1 .. KeywordCount :
                InternSearch(symbol_pool, TOKEN_TYPES_STR[i]) = Some(i - 1)
          /\ \A s \in DOMAIN symbol_pool :
                is_keyword(symbol_pool[s]) <=> s \in KeywordStrings
          /\ \A s \in KeywordStrings :
                get_keyword(symbol_pool[s]) =
                   [panic |-> FALSE, kind |-> TOKEN_TYPES_ENUM[LastPosition(s)]]
    /\ Frozen =>
          \A i \in 1 .. KeywordCount :
             ReverseGet(Unwrap(symbol_reverse), i - 1) = Some(TOKEN_TYPES_STR[i])
    /\ GrowthCall("insert_symbol") =>
          IF ret.arg \in KeywordStrings
          THEN ret.val = Some(LastPosition(ret.arg) - 1)
          ELSE \A id \in ret.val : id >= KeywordCount /\ ~is_keyword(id)

\* C5 witness: insert_symbol("let") after two identifiers were interned.
C5_Witness ==
    /\ GrowthCall("insert_symbol")
    /\ ret.arg = "let"
    /\ ret.val = Some(53)
    /\ symbol_counter = KeywordCount + 2

-----------------------------------------------------------------------------
(* Claims about words, checked under SpecLexWords.                         *)

\* The files lexed so far: the finished ones and the one being lexed.
LexedSoFar ==
    IF lex_state = "lexing"
    THEN Append(lexed, [input |-> lexer.input, tokens |-> tokens])
    ELSE lexed

\* The text that the span of a token covers.
TokenText(input, t) ==
    Collect(SubSeq(input, t.span.index + 1, t.span.index + t.span.size))

WordChar(ch) ==
    ch \in AsciiLower \cup AsciiUpper \cup OtherAlphabetic \cup AsciiDigits \cup { "_" }

\* The indices (from 0) at which a maximal word of the input begins.
WordStarts(input) ==
    { i \in 0 .. Len(input) - 1 :
        WordChar(input[i + 1]) /\ (i = 0 \/ ~WordChar(input[i])) }

\* The chars from index i (from 0) on are a maximal word of n chars.
MaximalWordAt(input, i, n) ==
    /\ n >= 1
    /\ i \in WordStarts(input)
    /\ \A j \in i + 1 .. i + n : WordChar(input[j])
    /\ i + n = Len(input) \/ ~WordChar(input[i + n + 1])

\* The identifier tokens of the files lexed so far, each with its text.
IdentifierTokens ==
    { [text |-> TokenText(LexedSoFar[k].input, LexedSoFar[k].tokens[j]),
       id |-> LexedSoFar[k].tokens[j].value.v] :
        <<k, j>> \in { kj \in (1 .. Len(LexedSoFar)) \X (1 .. MaxWords + 1) :
                        /\ kj[2] <= Len(LexedSoFar[kj[1]].tokens)
                        /\ LexedSoFar[kj[1]].tokens[kj[2]].value.kind = "Identifier" } }

-----------------------------------------------------------------------------
(* Claims about integer literals, checked under SpecLexNumbers.  The bounds *)
(* 2^64 - 1 and 2^63 of the claims are U64_MAX and I64_MAX + 1 here.        *)

IsDigits(chars) == chars # <<>> /\ \A i \in 1 .. Len(chars) : chars[i] \in AsciiDigits

\* The number that a string of digits of the radix denotes, and U64_MAX + 1
\* for every number above U64_MAX.
RECURSIVE ValueOf(_, _)
ValueOf(chars, radix) ==
    IF chars = <<>> THEN 0
    ELSE LET n == ValueOf(SubSeq(chars, 1, Len(chars) - 1), radix) * radix
                    + Unwrap(to_digit(chars[Len(chars)], radix))
         IN IF n > U64_MAX THEN U64_MAX + 1 ELSE n

\* The one token of a file that is one literal.
WholeFile(value) ==
    [value |-> value,
     span |-> [path |-> 0, line |-> 1, column |-> 1, index |-> 0,
               size |-> Len(lexer.input)]]

\* Lexer::lex returns, or is about to return, Ok of the one token.
LexedTo(value) ==
    /\ ~panicked
    /\ lex_state \in { "lexing", "done" }
    /\ tokens = <<>> => lex_state = "lexing" /\ lexer.index = 0
    /\ tokens # <<>> => tokens = << WholeFile(value) >>

\* Lexer::lex returns, or is about to return, Err of the type.
RejectedAs(typ) ==
    /\ ~panicked
    /\ tokens = <<>>
    /\ lex_state \in { "lexing", "error" }
    /\ lex_state = "lexing" => lexer.index = 0
    /\ lex_state = "error" => lex_error.typ = typ

\* C7: a file that is an unsigned decimal literal n is lexed to the one
\* token UInt(n) when n <= U64_MAX and is rejected with InvalidNumber when
\* n is above; no value other than n is ever produced.
C7_UnsignedDecimal ==
    (lex_state # "idle" /\ IsDigits(lexer.input)) =>
        LET n == ValueOf(lexer.input, 10)
        IN IF n <= U64_MAX THEN LexedTo(LiteralUInt(n))
           ELSE RejectedAs("InvalidNumber")

\* C7 witness: the literal U64_MAX + 1, whose value wraps to 0, has been
\* rejected.
C7_Witness ==
    /\ lex_state = "error"
    /\ IsDigits(lexer.input)
    /\ Collect(lexer.input) = ToString(U64_MAX + 1)
    /\ lex_error.typ = "InvalidNumber"

\* C8: a file `-n` is lexed to the one token Int(-n) for every n up to
\* I64_MAX + 1, n = 0 and n = I64_MAX + 1 included, without a panic, and is
\* rejected with InvalidNumber for every n above.
C8_NegativeDecimal ==
    (lex_state # "idle" /\ Len(lexer.input) >= 2 /\ Head(lexer.input) = "-"
        /\ IsDigits(Tail(lexer.input))) =>
        LET n == ValueOf(Tail(lexer.input), 10)
        IN IF n <= I64_MAX + 1 THEN LexedTo(LiteralInt(- n))
           ELSE RejectedAs("InvalidNumber")

\* C9: a file 0x<body> or 0b<body> is rejected with InvalidNumber when the
\* body is empty or holds a char that is no digit of the base; otherwise it
\* is lexed to UInt(value) when the value fits and rejected when it does not.
C9_RadixLiterals ==
    (lex_state # "idle" /\ Len(lexer.input) >= 2 /\ lexer.input[1] = "0"
        /\ lexer.input[2] \in { "x", "X", "b", "B" }) =>
        LET radix == IF lexer.input[2] \in { "x", "X" } THEN 16 ELSE 2
            body == SubSeq(lexer.input, 3, Len(lexer.input))
            wellFormed == /\ body # <<>>
                          /\ \A i \in 1 .. Len(body) : to_digit(body[i], radix) # None
        IN IF wellFormed /\ ValueOf(body, radix) <= U64_MAX
           THEN LexedTo(LiteralUInt(ValueOf(body, radix)))
           ELSE RejectedAs("InvalidNumber")

-----------------------------------------------------------------------------
(* Claims about punctuators, checked under SpecLexPunct.                   *)

\* The length of the longest table entry that the input has at index i
\* (from 0); 0 when no table entry begins there.
LongestEntry(input, i) ==
    LET lens == { n \in 1 .. Len(input) - i :
                    Collect(SubSeq(input, i + 1, i + n)) \in KeywordStrings }
    IN IF lens = {} THEN 0 ELSE CHOOSE n \in lens : \A m \in lens : m <= n

\* C10: a token that begins with a punctuation char is the Keyword of the
\* longest table entry at its start and spans it; after the token is read
\* the index and the column are past the start by the entry's length, on
\* the same line; Lexer::lex fails only where no table entry begins, with
\* UnknownCharacter, and never returns Ok of such a file.
C10_LongestMatch ==
    /\ ~panicked
    /\ \A k \in 1 .. Len(LexedSoFar) :
          LET f == LexedSoFar[k]
          IN /\ \A j \in 1 .. Len(f.tokens) :
                   LET tok == f.tokens[j]
                       n == LongestEntry(f.input, tok.span.index)
                       entry == Collect(SubSeq(f.input, tok.span.index + 1,
                                               tok.span.index + n))
                   IN is_ascii_punctuation(f.input[tok.span.index + 1]) =>
                        /\ n >= 1
                        /\ tok.span.size = n
                        /\ tok.value.kind = "Keyword"
                        /\ \E i \in TablePositions(entry) :
                              tok.value.v = TOKEN_TYPES_ENUM[i]
                        /\ j < Len(f.tokens) =>
                              /\ f.tokens[j + 1].span.index = tok.span.index + n
                              /\ f.tokens[j + 1].span.column = tok.span.column + n
                              /\ f.tokens[j + 1].span.line = tok.span.line
             /\ k <= Len(lexed) =>
                   \A i \in 0 .. Len(f.input) - 1 :
                      is_ascii_punctuation(f.input[i + 1]) =>
                         \E j \in 1 .. Len(f.tokens) :
                            /\ f.tokens[j].span.index <= i
                            /\ i < f.tokens[j].span.index + f.tokens[j].span.size
    /\ (lex_state = "lexing" /\ tokens # <<>>
            /\ is_ascii_punctuation(lexer.input[lexer.start_index + 1])) =>
          /\ lexer.index = lexer.start_index + LongestEntry(lexer.input, lexer.start_index)
          /\ lexer.column = lexer.start_column + LongestEntry(lexer.input, lexer.start_index)
          /\ lexer.line = lexer.start_line
    /\ lex_state = "error" =>
          /\ lex_error.typ = "UnknownCharacter"
          /\ is_ascii_punctuation(lexer.input[lex_error.span.index + 1])
          /\ LongestEntry(lexer.input, lex_error.span.index) = 0
          /\ lexer.index = lex_error.span.index

\* C10 witness: the file `>>>` has been lexed to `>>` and `>`, the file of
\* a pool that also holds the name `>>>`.
C10_Witness ==
    /\ lex_state = "done"
    /\ lexer.input = << ">", ">", ">" >>
    /\ ">>>" \in DOMAIN symbol_pool
    /\ Len(tokens) = 2
    /\ tokens[1].value = Keyword("RightShift")
    /\ tokens[1].span.size = 2
    /\ tokens[2].value = Keyword("Gt")
    /\ tokens[2].span.column = 3

-----------------------------------------------------------------------------
(* Claims about spans, checked under SpecLexLayout.                        *)

\* The newlines among the first n chars of the input.
NewlinesBefore(input, n) == Cardinality({ i \in 1 .. n : input[i] = "\n" })

\* The chars among the first n that stand after the last newline among them.
CharsSinceNewline(input, n) ==
    Cardinality({ i \in 1 .. n : \A j \in i .. n : input[j] # "\n" })

\* The char at index i (from 0) is in a `//` comment of a file without
\* string literals: on its line a pair of slashes begins at or before it.
InLineComment(input, i) ==
    \E j \in 0 .. i :
        /\ j + 2 <= Len(input)
        /\ input[j + 1] = "/" /\ input[j + 2] = "/"
        /\ \A k \in j + 1 .. i : input[k] # "\n"

\* C11: every token of the Vec has its span at the offset of its first
\* char, with a size of one or more chars inside the input, the line 1 +
\* the newlines before the offset and the column 1 + the chars since the
\* last newline; a token begins at or after the end of the token before
\* it; no token holds whitespace outside a string literal; and in a file
\* without string literals no token holds a char of a `//` comment, while a
\* lexed file has every other char that is no whitespace in some token.
C11_Spans ==
    LET input == lexer.input
        covered(i) == \E j \in 1 .. Len(tokens) :
                         /\ tokens[j].span.index <= i
                         /\ i < tokens[j].span.index + tokens[j].span.size
        noStrings == \A i \in 1 .. Len(input) : input[i] # "\""
    IN /\ \A j \in 1 .. Len(tokens) :
             LET s == tokens[j].span
             IN /\ s.path = lexer.path
                /\ s.index >= 0
                /\ s.size >= 1
                /\ s.index + s.size <= Len(input)
                /\ s.line = 1 + NewlinesBefore(input, s.index)
                /\ s.column = 1 + CharsSinceNewline(input, s.index)
                /\ ~is_whitespace(input[s.index + 1])
                /\ tokens[j].value.kind # "String" =>
                      \A i \in s.index + 1 .. s.index + s.size : ~is_whitespace(input[i])
                /\ j < Len(tokens) => s.index + s.size <= tokens[j + 1].span.index
       /\ noStrings =>
             /\ \A i \in 0 .. Len(input) - 1 : covered(i) => ~InLineComment(input, i)
             /\ lex_state = "done" =>
                   \A i \in 0 .. Len(input) - 1 :
                      (~is_whitespace(input[i + 1]) /\ ~InLineComment(input, i))
                          => covered(i)

\* C11 witness: the file of a comment line and `x` on the second line has
\* been lexed to the one token x at offset 3, line 2, column 1.
C11_Witness ==
    /\ lex_state = "done"
    /\ lexer.input = << "/", "/", "\n", "x" >>
    /\ Len(tokens) = 1
    /\ tokens[1].span = [path |-> 0, line |-> 2, column |-> 1, index |-> 3, size |-> 1]

-----------------------------------------------------------------------------
(* Claims about string literals, checked under SpecLexStrings.             *)

\* C12: a string literal whose pieces are plain chars and valid escapes,
\* \u{H...} of a scalar value among them at any place, is lexed to the one
\* token String of the chars the pieces stand for; a literal with an
\* escape that is not valid is rejected with InvalidEscapeSequence.
C12_Escapes ==
    \A ps \in PieceSeqs :
        (lex_state # "idle" /\ lexer.input = StringLiteralOf(ps)) =>
            IF \A i \in 1 .. Len(ps) : ps[i].val # None
            THEN LexedTo(LiteralString([i \in 1 .. Len(ps) |-> Unwrap(ps[i].val)]))
            ELSE RejectedAs("InvalidEscapeSequence")

\* The part of C12 that leaves \u out: the simple escapes and \xHH.
C12_SimpleEscapes ==
    \A ps \in PieceSeqs :
        (lex_state # "idle" /\ lexer.input = StringLiteralOf(ps)
            /\ \A i \in 1 .. Len(ps) : Len(ps[i].chars) < 2 \/ ps[i].chars[2] # "u") =>
            LexedTo(LiteralString([i \in 1 .. Len(ps) |-> Unwrap(ps[i].val)]))

-----------------------------------------------------------------------------
(* Claims about the merge of spans, checked under SpecSpans.               *)

\* a is a first and b a last span: both in one file, b not before a.
FirstAndLast(a, b) ==
    /\ a.path = b.path
    /\ a.index <= b.index
    /\ b.index + b.size >= a.index

\* C13: for a first span a and a last span b, the merge (last - first, the
\* order of the doc comment and of the parser's end - start) is the
\* smallest span that covers both: it keeps the path, starts at a.index
\* with a's line and column, has the size b.index + b.size - a.index, and
\* the subtraction neither underflows nor panics.
C13_Merge ==
    (parsed.op = "sub" /\ FirstAndLast(parsed.input[2], parsed.input[1]))
        => /\ parsed.res = "ok"
           /\ LET a == parsed.input[2]
                  b == parsed.input[1]
              IN parsed.value = [ path |-> a.path, line |-> a.line,
                                  column |-> a.column, index |-> a.index,
                                  size |-> b.index + b.size - a.index ]

-----------------------------------------------------------------------------
(* Claims about parse_file, checked under SpecParseFiles.                  *)

\* The words of the tokens of the parser.
RECURSIVE WordsOf(_)
WordsOf(toks) ==
    IF toks = <<>> THEN <<>>
    ELSE << (IF Head(toks).value.kind = "Keyword"
             THEN TOKEN_TYPES_STR[CHOOSE i \in 1 .. KeywordCount :
                                     TOKEN_TYPES_ENUM[i] = Head(toks).value.v]
             ELSE IF Head(toks).value.kind = "UInt"
             THEN NumberWords[Head(toks).value.v + 1]
             ELSE Head(toks).value.v) >> \o WordsOf(Tail(toks))
FileWords == WordsOf(parser.tokens)
StartsWith(words, prefix) ==
    Len(words) >= Len(prefix) /\ SubSeq(words, 1, Len(prefix)) = prefix
FileParsed == parsed.op = "parse"

\* C14: parse_file fails with a Module error when the tokens are empty, do
\* not start with the keyword module, or name another module; it consumes
\* the header 'module m ;' with its semicolon and goes on with the rest,
\* so that the header alone is a File without definitions and
\* 'module m; pub fn f()->bool { return true; }' is a File with exactly
\* one function, the public f.
C14_Header ==
    FileParsed =>
        /\ (FileWords = <<>> \/ Head(FileWords) # "module"
            \/ (Len(FileWords) >= 2 /\ FileWords[2] # ModuleName))
               => (parsed.res = "err" /\ parsed.error.typ = "Module")
        /\ FileWords = <<"module", "m", ";">>
               => /\ parsed.res = "ok"
                  /\ DOMAIN parsed.value.functions = {}
                  /\ DOMAIN parsed.value.types = {}
                  /\ DOMAIN parsed.value.globals = {}
        /\ FileWords = <<"module", "m", ";", "pub", "fn", "f", "(", ")", "->", "bool",
                         "{", "return", "true", ";", "}">>
               => /\ parsed.res = "ok"
                  /\ DOMAIN parsed.value.functions = { "f" }
                  /\ parsed.value.functions["f"].visibility = "Public"
                  /\ DOMAIN parsed.value.types = {}
                  /\ DOMAIN parsed.value.globals = {}

\* The Module errors of the header are the claimed ones (this part holds).
C14_HeaderErrors ==
    FileParsed =>
        ((FileWords = <<>> \/ Head(FileWords) # "module"
          \/ (Len(FileWords) >= 2 /\ FileWords[2] # ModuleName))
             => (parsed.res = "err" /\ parsed.error.typ = "Module"))

-----------------------------------------------------------------------------
(* Claims about parse_declaration, checked under SpecParseDeclarations.    *)

\* The well-formed types and values of the declarations.
WellFormedTypes == { t \in DeclarationTypes : Len(t) >= 2 /\ Head(t) = ":" }
WellFormedValues == { v \in DeclarationValues : Len(v) >= 2 /\ Head(v) = "=" }
DeclarationParsed == parsed.op = "parse_declaration"

\* C15: parse_declaration accepts 'let|var name : type = expr ;' with the
\* assignment punctuator '=': it returns the Declaration of that name,
\* mutable exactly for var, and leaves the parser just after the ';'; a
\* declaration without '= expr' fails with a Declaration error and one
\* without the ';' with a LineEnd error.
C15_Declaration ==
    DeclarationParsed =>
        \A keyword \in { "let", "var" }, type \in WellFormedTypes :
            LET head == <<keyword, "x">> \o type
            IN /\ \A value \in WellFormedValues :
                    /\ StartsWith(FileWords, head \o value \o <<";">>)
                          => /\ parsed.res = "ok"
                             /\ parsed.value.name = "x"
                             /\ parsed.value.mutable = (keyword = "var")
                             /\ parser.index = Len(head \o value) + 1
                    /\ FileWords = head \o value
                          => (parsed.res = "err" /\ parsed.error.typ = "LineEnd")
               /\ StartsWith(FileWords, head \o <<";">>)
                     => (parsed.res = "err" /\ parsed.error.typ = "Declaration")

\* A declaration without a value fails with a Declaration error (this part
\* holds).
C15_Uninitialized ==
    DeclarationParsed =>
        \A keyword \in { "let", "var" }, type \in WellFormedTypes :
            StartsWith(FileWords, <<keyword, "x">> \o type \o <<";">>)
                => (parsed.res = "err" /\ parsed.error.typ = "Declaration")

-----------------------------------------------------------------------------
(* Claims about parse_expression, checked under SpecParseExpressions.      *)

\* An expression without its spans, in prefix notation.
RECURSIVE Prefix(_)
RECURSIVE PrefixAll(_)
PrefixAll(list) ==
    IF list = <<>> THEN <<>> ELSE Prefix(Head(list)) \o PrefixAll(Tail(list))
Prefix(e) ==
    LET v == e.value
    IN IF v.kind = "Binary" THEN << v.op >> \o Prefix(v.left) \o Prefix(v.right)
       ELSE IF v.kind = "Unary" THEN << v.op >> \o Prefix(v.operand)
       ELSE IF v.kind = "Call"
       THEN << "Call" >> \o Prefix(v.function) \o << "(" >> \o PrefixAll(v.args)
            \o << ")" >>
       ELSE IF v.kind = "Identifier" THEN v.name
       ELSE IF v.literal.kind = "UInt" THEN << NumberWords[v.literal.v + 1] >>
       ELSE IF v.literal.kind = "Array"
       THEN << "[" >> \o PrefixAll(v.literal.v) \o << "]" >>
       ELSE IF v.literal.kind = "Struct" THEN << "Struct" >>
       ELSE << "Literal" >>
IsOperand(word) == \E n \in 1 .. Len(Operands) : Operands[n] = word
Leaves(e) == SelectSeq(Prefix(e), IsOperand)

\* The first call of parse_expression on the tokens has returned.
ExpressionParsed == parsed.op = "parse_expression" /\ parsed.input = 0
\* The text starts with the expression `text`, which a token that is no
\* operator follows, or the end.
ExpressionIs(text) == FileWords = text \/ StartsWith(FileWords, text \o << ";" >>)

\* C16: the Pratt parser gives '*' a higher precedence than '+':
\* '1 + 2 * 3' is Binary(+, 1, Binary(*, 2, 3)) and '1 * 2 + 3' is
\* Binary(+, Binary(*, 1, 2), 3); in the tree of a chain of operands and
\* binary operators every operand is a leaf once, in the order of the
\* source, and the parser stops at the first token that is no operator
\* without consuming it.
C16_Precedence ==
    ExpressionParsed =>
        \A chain \in ChainTexts :
            ExpressionIs(chain) =>
                /\ parsed.res = "ok"
                /\ Leaves(parsed.value) = SelectSeq(chain, IsOperand)
                /\ parser.index = Len(chain)
                /\ chain = << "1", "+", "2", "*", "3" >>
                      => Prefix(parsed.value) = << "Plus", "1", "Mul", "2", "3" >>
                /\ chain = << "1", "*", "2", "+", "3" >>
                      => Prefix(parsed.value) = << "Plus", "Mul", "1", "2", "3" >>


\* C17: a postfix operator applies to the expression parsed so far:
\* 'a ( c )' is a Call with the arguments up to the ')', 'a [ c ]' is
\* Binary(Indexing, a, c) closed by the ']', 'a { x : 1 , y : 2 }' is a
\* struct literal with its two fields closed by the '}', and 'a . b ( c )'
\* is Call(Binary(FieldAccess, a, b), [c]); the parser is left right after
\* the closing token.
C17_Postfix ==
    ExpressionParsed =>
        /\ ExpressionIs(<< "a", "(", "c", ")" >>)
              => /\ parsed.res = "ok"
                 /\ Prefix(parsed.value) = << "Call", "a", "(", "c", ")" >>
                 /\ parser.index = 4
        /\ ExpressionIs(<< "a", "[", "c", "]" >>)
              => /\ parsed.res = "ok"
                 /\ Prefix(parsed.value) = << "Indexing", "a", "c" >>
                 /\ parser.index = 4
        /\ ExpressionIs(<< "a", "{", "x", ":", "1", ",", "y", ":", "2", "}" >>)
              => /\ parsed.res = "ok"
                 /\ parsed.value.value.kind = "Literal"
                 /\ parsed.value.value.literal.kind = "Struct"
                 /\ DOMAIN parsed.value.value.literal.v = { "x", "y" }
                 /\ parser.index = 10
        /\ ExpressionIs(<< "a", ".", "b", "(", "c", ")" >>)
              => /\ parsed.res = "ok"
                 /\ Prefix(parsed.value)
                       = << "Call", "FieldAccess", "a", "b", "(", "c", ")" >>
                 /\ parser.index = 6


\* The expressions directly below an expression.
Range(f) == { f[x] : x \in DOMAIN f }
Children(e) ==
    LET v == e.value
    IN IF v.kind = "Binary" THEN { v.left, v.right }
       ELSE IF v.kind = "Unary" THEN { v.operand }
       ELSE IF v.kind = "Call" THEN { v.function } \cup Range(v.args)
       ELSE IF v.kind = "Literal" /\ v.literal.kind \in { "Array", "Struct" }
       THEN Range(v.literal.v)
       ELSE {}
SpanEnd(span) == span.index + span.size
\* The span of every node covers the spans of the nodes below it.
RECURSIVE Nested(_)
Nested(e) ==
    \A c \in Children(e) :
        /\ e.span.index <= c.span.index
        /\ SpanEnd(c.span) <= SpanEnd(e.span)
        /\ Nested(c)

\* C18: the span of an expression starts at the index of its first token
\* and ends at the end of its last token: the span of the expression that
\* parse_expression returns starts at the first token it was called on, the
\* span of a name or a literal that is the whole text ends where the text
\* ends, the span of a node covers the spans of its operands, and computing
\* the spans never panics.
C18_ExpressionSpans ==
    ExpressionParsed =>
        /\ parsed.res # "panic"
        /\ parsed.res = "ok"
              => /\ parsed.value.span.index = parser.tokens[1].span.index
                 /\ Nested(parsed.value)
                 /\ FileWords \in { << "1" >>, << "a" >>, << "a", "::", "b" >> }
                       => SpanEnd(parsed.value.span)
                             = SpanEnd(parser.tokens[Len(parser.tokens)].span)

\* The span of a literal or of a name of one segment is the span of its
\* token (this part holds).
C18_OneToken ==
    (ExpressionParsed /\ FileWords \in { << "1" >>, << "a" >> })
        => /\ parsed.res = "ok"
           /\ parsed.value.span = parser.tokens[1].span


\* The definitions of a file that define the name f in different
\* categories, and those that define it in the same one.
FunctionF == <<"pub", "fn", "f", "(", ")", "{", "}">>
TypeF == <<"pub", "enum", "f", "{", "A", "}">>
HeaderM == <<"module", "m", ";">>

\* C19: the names of the types, of the globals and of the functions of a
\* File are unique within their category and no module is imported twice:
\* a file that defines a name twice in one category or imports a module
\* twice is rejected with an error, and a file that uses a name in two
\* categories is accepted, with the name in both maps.
C19_UniqueNames ==
    FileParsed =>
        /\ \A definition \in { FunctionF, TypeF } :
              StartsWith(FileWords, HeaderM \o definition \o definition)
                 => parsed.res = "err"
        /\ StartsWith(FileWords, HeaderM \o <<"import", "a", ";", "import", "a", ";">>)
              => parsed.res = "err"
        /\ FileWords = HeaderM \o FunctionF \o TypeF
              => /\ parsed.res = "ok"
                 /\ DOMAIN parsed.value.functions = { "f" }
                 /\ DOMAIN parsed.value.types = { "f" }

\* A name defined twice in one category, or a module imported twice, is
\* rejected after a header in either form (this part holds).
C19_DuplicatesRejected ==
    FileParsed =>
        \A header \in { HeaderM, <<"module", "m">> } :
            /\ \A definition \in { FunctionF, TypeF } :
                  StartsWith(FileWords, header \o definition \o definition)
                     => parsed.res = "err"
            /\ StartsWith(FileWords, header \o <<"import", "a", ";", "import", "a", ";">>)
                  => parsed.res = "err"

-----------------------------------------------------------------------------
(* Claims about the enum bodies, checked under SpecParseEnums.             *)

\* The values that the fields of an enum have: the value written, or the
\* previous value plus one, 0 for the first field.
RECURSIVE Numbering(_, _)
Numbering(fields, next) ==
    IF fields = <<>> THEN <<>>
    ELSE LET value == IF Head(fields).value = None THEN next
                      ELSE Unwrap(Head(fields).value)
         IN << value >> \o Numbering(Tail(fields), value + 1)
Distinct(s) == \A i, j \in 1 .. Len(s) : s[i] = s[j] => i = j
EnumParsed == parsed.op = "parse_type_definition"

\* C20: in an enum a field written 'name = n' has the value n and a field
\* without a value the previous value plus one, 0 when it is the first;
\* an enum with a repeated name or a repeated value fails with a
\* TypeDefinition error, so that names and values of a parsed enum map one
\* to one.
C20_EnumNumbering ==
    EnumParsed =>
        \A fields \in SeqsOf(EnumFields, 1, MaxEnumFields), end \in { <<"}">>, <<",", "}">> } :
            FileWords = EnumText(fields, "=", end) =>
                LET values == Numbering(fields, 0)
                IN IF Distinct(values) /\ Distinct([i \in 1 .. Len(fields) |-> fields[i].name])
                   THEN /\ parsed.res = "ok"
                        /\ parsed.value.name = "E"
                        /\ parsed.value.body.kind = "Enum"
                        /\ DOMAIN parsed.value.body.v
                              = { fields[i].name : i \in 1 .. Len(fields) }
                        /\ \A i \in 1 .. Len(fields) :
                              parsed.value.body.v[fields[i].name] = values[i]
                   ELSE /\ parsed.res = "err"
                        /\ parsed.error.typ = "TypeDefinition"

\* The values of a parsed enum are pairwise different, and an enum that
\* names a field twice is rejected (this part holds).
C20_OneToOne ==
    EnumParsed =>
        /\ parsed.res = "ok"
              => \A m, n \in DOMAIN parsed.value.body.v :
                    parsed.value.body.v[m] = parsed.value.body.v[n] => m = n
        /\ \A name \in EnumNames, end \in EnumEnds :
              FileWords = << "enum", "E", "{", name, ",", name >> \o end
                 => (parsed.res = "err" /\ parsed.error.typ = "TypeDefinition")

-----------------------------------------------------------------------------
(* Claims about struct and union bodies, checked under SpecParseStructs.   *)

StructParsed == parsed.op = "parse_type_definition"
StructNames(fields) == [i \in 1 .. Len(fields) |-> fields[i].name]

\* C21: a struct or union body parses with or without a trailing comma and
\* is consumed through its closing '}', so that the parser is left at what
\* follows the definition; a repeated field name fails with a
\* TypeDefinition error and a body without its '}' is an error.
C21_StructBody ==
    StructParsed =>
        \A keyword \in StructKeywords, fields \in SeqsOf(StructFields, 0, MaxStructFields),
           rest \in StructRests :
            /\ \A end \in { << "}" >>, << ",", "}" >> } :
                  (FileWords = StructText(keyword, fields, end, rest)
                   /\ (fields = <<>> => end = << "}" >>))
                  => IF Distinct(StructNames(fields))
                     THEN /\ parsed.res = "ok"
                          /\ DOMAIN parsed.value.body.v
                                = { fields[i].name : i \in 1 .. Len(fields) }
                          /\ parser.index = Len(parser.tokens) - Len(rest)
                     ELSE /\ parsed.res = "err"
                          /\ parsed.error.typ = "TypeDefinition"
            /\ FileWords = StructText(keyword, fields, <<>>, rest)
                  => parsed.res = "err"

\* The field names of a parsed struct or union are those written, each once:
\* a repeated name is rejected (this part holds).
C21_UniqueFields ==
    StructParsed =>
        \A keyword \in StructKeywords, fields \in SeqsOf(StructFields, 0, MaxStructFields),
           end \in StructEnds, rest \in StructRests :
            FileWords = StructText(keyword, fields, end, rest)
               /\ ~Distinct(StructNames(fields))
               => (parsed.res = "err" /\ parsed.error.typ = "TypeDefinition")

-----------------------------------------------------------------------------
(* Claims about the parameters of a function, checked under                *)
(* SpecParseFunctions.                                                     *)

FunctionParsed == parsed.op = "parse_function"

\* C22: parse_function rejects with a Function error every signature in
\* which two parameters have the same name; the parameter names of every
\* Function it returns are pairwise distinct.
C22_UniqueParameters ==
    FunctionParsed =>
        /\ parsed.res = "ok"
              => Distinct([i \in 1 .. Len(parsed.value.arguments)
                             |-> parsed.value.arguments[i].name])
        /\ \A arguments \in SeqsOf(Arguments, 0, MaxArguments),
              return \in FunctionReturns, end \in FunctionEnds :
              FileWords = FunctionText(arguments, return, end)
                 /\ ~Distinct(StructNames(arguments))
                 => (parsed.res = "err" /\ parsed.error.typ = "Function")

\* The parameters of a parsed function are those written, in their order.
C22_Parameters ==
    FunctionParsed /\ parsed.res = "ok" =>
        \E arguments \in SeqsOf(Arguments, 0, MaxArguments),
           return \in FunctionReturns, end \in FunctionEnds :
            /\ FileWords = FunctionText(arguments, return, end)
            /\ StructNames(arguments)
                  = [i \in 1 .. Len(parsed.value.arguments)
                       |-> parsed.value.arguments[i].name]

-----------------------------------------------------------------------------
(* Claims about the module loader, checked under SpecLoadModules and, for  *)
(* its termination, under LiveLoadModules.                                 *)

\* The directories below dir that hold a manifest, dir included.
ModuleTree(fs, dir) ==
    { m \in DOMAIN fs.manifest :
        Len(m) >= Len(dir) /\ SubSeq(m, 1, Len(dir)) = dir }
\* The directories that the manifests of a module and of its submodules
\* name.
DependencyDirs(fs, dir) ==
    UNION { { Directory(path) : path \in fs.manifest[m] } : m \in ModuleTree(fs, dir) }
\* The top-level module directories that the entry reaches.
RECURSIVE ReachableDirs(_, _)
ReachableDirs(fs, dirs) ==
    LET more == dirs \cup UNION { DependencyDirs(fs, dir) :
                                    dir \in dirs \cap DOMAIN fs.manifest }
    IN IF more = dirs THEN dirs ELSE ReachableDirs(fs, more)

\* resolve has returned, with its map or with an Err (or the model has
\* stopped it at the bound of its queue).
Resolved == resolver.state \in { "ok", "err", "full" }
\* A call of resolve returns.
ResolveReturns == (resolver.state = "resolving") ~> Resolved
\* parse_modules is not in a loop that it never leaves.
NeverHangs == loader.state # "hang"

\* No module directory is read and parsed more than once, and a load that
\* succeeds has read every directory the entry reaches.
ReadOnce ==
    /\ \A dir \in DOMAIN loader.reads : loader.reads[dir] = 1
    /\ loader.state = "ok" =>
          \A dir \in ReachableDirs(world, { Directory(loader.entry) }) :
             ModuleTree(world, dir) \subseteq DOMAIN loader.reads

\* On success the modules are those that the entry reaches, the entry
\* among them, each under its name.
LoadedAll ==
    loader.state = "ok" =>
        /\ DOMAIN LoadedAst.modules
              = { path_to_module_name(dir) :
                    dir \in ReachableDirs(world, { Directory(loader.entry) }) }
        /\ LoadedAst.entry \in DOMAIN LoadedAst.modules
        /\ \A name \in DOMAIN LoadedAst.modules : LoadedAst.modules[name].name = name

\* C23: the module loader terminates on every finite set of module
\* directories, a dependency cycle, a self-dependency and a diamond
\* included; each module directory that the entry reaches is read and
\* parsed exactly once; on success the modules of the Ast are the
\* top-level modules that the entry reaches, the entry among them.
C23_LoaderTerminates ==
    /\ ResolveReturns
    /\ []NeverHangs
    /\ []ReadOnce
    /\ []LoadedAll

\* A path that is in the queue, or whose module is parsed, is not added to
\* the queue again.
C23_QueuedOnce ==
    [][\A path \in loader'.queue \ loader.queue :
          /\ path \notin loader.queue
          /\ path_to_module_name(path) \notin DOMAIN loader.modules]_vars

\* A load whose manifests name every directory by one path, and none of
\* whose files hangs the parser, reads no directory twice.
C23_ReadOncePerPath ==
    (\A dir \in DOMAIN world.manifest :
        \A path \in world.manifest[dir] : Directory(path) = path)
    => \A dir \in DOMAIN loader.reads : loader.reads[dir] = 1

-----------------------------------------------------------------------------
(* Claims about the semantic parser, checked under SpecSemantic.           *)

\* The module and the file that the last call was for, in the syntax Ast
\* and in the semantic Ast.
CalledModule == SyntaxModule(LoadedAst, semantic.call.module)
CalledFile == CalledModule.files[semantic.call.file]
CalledSemanticFile ==
    semantic.heap[SemanticModule(semantic.heap, Unwrap(semantic.ast),
                                 semantic.call.module)].files[semantic.call.file]
ImportsResolved == semantic.op = "resolve_file_imports"
Undeclared == DOMAIN CalledFile.imports \ CalledModule.dependencies

\* C24: import resolution of a file F of a module M does not panic; when
\* F imports an id that is not among the dependencies of M it fails with
\* an Import error that carries the span of that import; otherwise it
\* succeeds, and then the imports of F have exactly the keys of the
\* imports of the syntactic file, each the handle of the module that the
\* semantic Ast holds under the id.
C24_ImportResolution ==
    ImportsResolved =>
        /\ semantic.res # "panic"
        /\ Undeclared # {} =>
              /\ semantic.res = "err"
              /\ \E import \in Undeclared :
                    semantic.error = SemanticError("Import", "Importing undeclared module",
                                                   CalledFile.imports[import])
        /\ Undeclared = {} =>
              /\ semantic.res = "ok"
              /\ DOMAIN CalledSemanticFile.imports = DOMAIN CalledFile.imports
              /\ \A import \in DOMAIN CalledFile.imports :
                    CalledSemanticFile.imports[import]
                       = Unwrap(semantic.ast).modules[import]

\* A file with two imports, both dependencies of its module, is resolved.
C24_Witness ==
    /\ ImportsResolved
    /\ semantic.res = "ok"
    /\ Cardinality(DOMAIN CalledFile.imports) = 2

\* A file that imports a module that is no dependency is rejected.
C24_WitnessUndeclared ==
    /\ ImportsResolved
    /\ semantic.res = "err"
    /\ "x" \in DOMAIN CalledFile.imports

\* The handles of the TypeDefs of the heap.
TypeHandles == { h \in 1 .. Len(semantic.heap) : "id" \in DOMAIN semantic.heap[h] }
\* The skeleton of a file: the same names, the visibility of each, and
\* the placeholders.
FileSkeleton(syn, sem) ==
    /\ sem.name = syn.name /\ sem.module = syn.module /\ sem.imports = EmptyMap
    /\ DOMAIN sem.globals = DOMAIN syn.globals
    /\ DOMAIN sem.functions = DOMAIN syn.functions
    /\ DOMAIN sem.types = DOMAIN syn.types
    /\ \A name \in DOMAIN syn.globals :
          LET global == semantic.heap[sem.globals[name].value]
          IN /\ sem.globals[name].visibility = syn.globals[name].visibility
             /\ global.name = syn.globals[name].value.name
             /\ global.mutable = syn.globals[name].value.mutable
             /\ global.typ = TypeU8
    /\ \A name \in DOMAIN syn.functions :
          LET function == semantic.heap[sem.functions[name].value]
              arguments == syn.functions[name].value.arguments
          IN /\ sem.functions[name].visibility = syn.functions[name].visibility
             /\ function.name = syn.functions[name].value.name
             /\ function.body = <<>>
             /\ function.return_type = None
             /\ Len(function.arguments) = Len(arguments)
             /\ \A i \in 1 .. Len(arguments) :
                   /\ semantic.heap[function.arguments[i]].name = arguments[i].name
                   /\ semantic.heap[function.arguments[i]].typ = TypeU8
    /\ \A name \in DOMAIN syn.types :
          LET typ == semantic.heap[sem.types[name].value]
              body == syn.types[name].value.body
          IN /\ sem.types[name].visibility = syn.types[name].visibility
             /\ typ.name = syn.types[name].value.name
             /\ typ.size = 0
             /\ typ.body.kind = body.kind
             /\ body.kind = "Alias" => typ.body.v = TypeU8
             /\ body.kind = "Enum" => typ.body.v = [field \in DOMAIN body.v |-> 0]
             /\ body.kind \in { "Struct", "Union" }
                   => typ.body.v = [field \in DOMAIN body.v |-> TypeU8]
\* The skeleton of a module and of its submodules.
ModuleSkeleton(names) ==
    LET syn == SyntaxModule(LoadedAst, names)
        sem == semantic.heap[SemanticModule(semantic.heap, Unwrap(semantic.ast), names)]
    IN /\ sem.name = syn.name
       /\ DOMAIN sem.files = DOMAIN syn.files
       /\ DOMAIN sem.submodules = DOMAIN syn.submodules
       /\ \A file \in DOMAIN syn.files : FileSkeleton(syn.files[file], sem.files[file])
NamesCollected == semantic.op = "collect_names"

\* C25: pass 1 gives the semantic Ast the module, submodule and file keys
\* of the syntactic Ast and, for every global, function and type, one
\* skeleton under the same name with the same visibility and placeholder
\* content (type U8, empty body, size 0); the TypeIds of the types are
\* pairwise distinct, handed out by one counter that grows by one.
C25_Skeletons ==
    NamesCollected =>
        /\ Unwrap(semantic.ast).entry = LoadedAst.entry
        /\ DOMAIN Unwrap(semantic.ast).modules = DOMAIN LoadedAst.modules
        /\ \A names \in ModulePaths(LoadedAst) : ModuleSkeleton(names)
        /\ \A g, h \in TypeHandles :
              semantic.heap[g].id = semantic.heap[h].id => g = h
        /\ \A g, h \in TypeHandles :
              g < h => semantic.heap[g].id < semantic.heap[h].id
        /\ { semantic.heap[h].id : h \in TypeHandles } = 0 .. semantic.type_id - 1

\* The skeletons of an Ast with five types, three of them in one file.
C25_Witness ==
    /\ NamesCollected
    /\ Cardinality(TypeHandles) = 5
    /\ \E name \in DOMAIN LoadedAst.modules :
          Cardinality(DOMAIN LoadedAst.modules[name].files[MainFile].types) = 3

TypeAnnotResolved == semantic.op = "resolve_type_annot"
\* The Type of a base under the modifiers of an annotation.
Modified(base, modifiers) ==
    IF modifiers = <<>> THEN base
    ELSE [kind |-> "Modified", modifiers |-> modifiers, base |-> base]
\* The primitive Type that a name is the keyword of, if any.
PrimitiveOf(name) ==
    IF name \in KeywordStrings
    THEN keyword_to_primitive(TOKEN_TYPES_ENUM[CHOOSE i \in TablePositions(name) : TRUE])
    ELSE None

\* C26: the resolution of a type annotation whose base is one identifier
\* returns and does not panic: the primitive Type when the identifier is
\* the keyword of a primitive, Custom(handle) of the type of that name of
\* the current file when there is one, and otherwise (a keyword that is no
\* primitive included) a Type error with the span of the annotation; the
\* modifiers of the annotation are applied on top of the base.
C26_TypeAnnotation ==
    (TypeAnnotResolved /\ Len(semantic.call.annot.base.v) = 1) =>
        LET annot == semantic.call.annot
            name == annot.base.v[1]
        IN /\ semantic.res \in { "ok", "err" }
           /\ PrimitiveOf(name) # None =>
                 /\ semantic.res = "ok"
                 /\ semantic.value = Modified(Unwrap(PrimitiveOf(name)), annot.modifiers)
           /\ (name \notin KeywordStrings /\ name \in DOMAIN CalledSemanticFile.types) =>
                 /\ semantic.res = "ok"
                 /\ semantic.value
                       = Modified(TypeCustom(CalledSemanticFile.types[name].value),
                                  annot.modifiers)
           /\ (PrimitiveOf(name) = None
               /\ (name \in KeywordStrings \/ name \notin DOMAIN CalledSemanticFile.types)) =>
                 /\ semantic.res = "err"
                 /\ \E err \in semantic.error : err.typ = "Type" /\ err.span = annot.span

\* Every call of resolve_type_annot panics, whatever the annotation.
C26_Unimplemented == TypeAnnotResolved => (semantic.res = "panic" /\ panicked)

TypeResolved == semantic.op = "resolve_type"
\* The types of a syntactic file that a type holds by value: the targets
\* of its alias or of its fields that are behind no pointer and no slice.
HeldByValue(file, name) ==
    LET body == file.types[name].value.body
        annots == IF body.kind = "Alias" THEN { body.v }
                  ELSE IF body.kind = "Enum" THEN {}
                  ELSE { body.v[field] : field \in DOMAIN body.v }
    IN { annot.base.v[1] : annot \in { a \in annots : a.modifiers = <<>> } }
       \cap DOMAIN file.types
RECURSIVE HeldWithin(_, _)
HeldWithin(file, names) ==
    LET more == names \cup UNION { HeldByValue(file, name) : name \in names }
    IN IF more = names THEN names ELSE HeldWithin(file, more)
ContainsItself(file, name) == name \in HeldWithin(file, HeldByValue(file, name))
\* The size of a semantic Type.
SizeOf(typ) == IF typ.kind = "Custom" THEN semantic.heap[typ.v].size ELSE 1
RECURSIVE SumOfSizes(_, _)
SumOfSizes(fields, names) ==
    IF names = {} THEN 0
    ELSE LET name == CHOOSE name \in names : TRUE
         IN SizeOf(fields[name]) + SumOfSizes(fields, names \ { name })
MaxOfSizes(fields) ==
    IF DOMAIN fields = {} THEN 0
    ELSE CHOOSE size \in { SizeOf(fields[name]) : name \in DOMAIN fields } :
            \A name \in DOMAIN fields : SizeOf(fields[name]) <= size

\* C27: the resolution of the body of a type rejects with a Type error
\* every type that holds itself by value, through alias targets or the
\* fields of structs and unions behind no pointer and no slice, and does
\* not panic; after a resolution that succeeds the type holds no such
\* cycle, the size of a struct is the sum of the sizes of its fields, the
\* size of a union their maximum, and the size of an enum 8.
C27_TypeBodies ==
    TypeResolved =>
        LET typ == semantic.heap[CalledSemanticFile.types[semantic.call.name].value]
        IN /\ semantic.res \in { "ok", "err" }
           /\ ContainsItself(CalledFile, semantic.call.name) =>
                 /\ semantic.res = "err"
                 /\ \E err \in semantic.error : err.typ = "Type"
           /\ semantic.res = "ok" =>
                 /\ typ.body.kind = "Enum" => typ.size = 8
                 /\ typ.body.kind = "Struct"
                       => typ.size = SumOfSizes(typ.body.v, DOMAIN typ.body.v)
                 /\ typ.body.kind = "Union" => typ.size = MaxOfSizes(typ.body.v)

\* The resolution of an enum succeeds and sets its size to 8.
C27_EnumSize ==
    (TypeResolved /\ CalledFile.types[semantic.call.name].value.body.kind = "Enum") =>
        /\ semantic.res = "ok"
        /\ semantic.heap[CalledSemanticFile.types[semantic.call.name].value].size = 8

-----------------------------------------------------------------------------
(* Claims about the associativity of the binary operators, checked under   *)
(* SpecParseExpressions.                                                   *)

\* The BinaryOp of an operator of the chains.
BinaryOpOf(operator) ==
    IF operator = "+" THEN "Plus" ELSE IF operator = "-" THEN "Minus"
    ELSE IF operator = "*" THEN "Mul" ELSE "FieldAccess"
\* The pairs of operators of the chains that have the same precedence.
SamePrecedence ==
    { <<"+", "+">>, <<"+", "-">>, <<"-", "+">>, <<"-", "-">>, <<"*", "*">> }

\* C28: binary operators of the same precedence associate to the left:
\* '1 op1 2 op2 3' is Binary(op2, Binary(op1, 1, 2), 3), so '1 - 2 - 3' is
\* (1 - 2) - 3; a unary prefix operator binds tighter than every binary
\* operator but the field access: '- 1 + 2' is Binary(+, Unary(-, 1), 2)
\* and '- a . b' is Unary(-, Binary(., a, b)).
C28_LeftAssociative ==
    ExpressionParsed =>
        /\ \A operators \in SamePrecedence :
              ExpressionIs(<< "1", operators[1], "2", operators[2], "3" >>) =>
                 /\ parsed.res = "ok"
                 /\ Prefix(parsed.value)
                       = << BinaryOpOf(operators[2]), BinaryOpOf(operators[1]),
                            "1", "2", "3" >>
        /\ ExpressionIs(<< "-", "1", "+", "2" >>) =>
              /\ parsed.res = "ok"
              /\ Prefix(parsed.value) = << "Plus", "Negate", "1", "2" >>
        /\ ExpressionIs(<< "-", "1", "*", "2" >>) =>
              /\ parsed.res = "ok"
              /\ Prefix(parsed.value) = << "Mul", "Negate", "1", "2" >>
        /\ ExpressionIs(<< "-", "a", ".", "b" >>) =>
              /\ parsed.res = "ok"
              /\ Prefix(parsed.value) = << "Negate", "FieldAccess", "a", "b" >>

-----------------------------------------------------------------------------
(* Claims about the termination of the parser, checked under               *)
(* SpecParseStatements.                                                    *)

StatementParsed == parsed.op = "parse_statement"
BlockParsed == parsed.op = "parse_block"

\* C29: the parser terminates on every finite sequence of tokens, with its
\* result or with the first error: every statement that parse_statement
\* accepts, 'continue' and 'break' included, consumes at least one token,
\* so that each turn of the loop of parse_block makes progress and the
\* loop ends at the closing brace or with an error at the end of the
\* input.
C29_ParserTerminates ==
    /\ parsed.res \in { "none", "ok", "err" }
    /\ (StatementParsed /\ parsed.res = "ok") => parser.index > parsed.input
    /\ (BlockParsed /\ parsed.res = "ok") =>
          /\ parser.index > parsed.input
          /\ FileWords[parser.index] = "}"

\* Every statement but 'break' and 'continue' that parse_statement accepts
\* consumes at least one token.
C29_OtherStatements ==
    (StatementParsed /\ parsed.res = "ok" /\ parsed.value.kind \notin { "Break", "Continue" })
        => parser.index > parsed.input

-----------------------------------------------------------------------------
(* Claims about the dependencies of the loaded modules, checked under      *)
(* SpecLoadModules.                                                        *)

\* The names of the dependencies that the manifest of a loaded module
\* lists.
ManifestNames(module) ==
    { path_to_module_name(path) : path \in world.manifest[Directory(module.path)] }

\* C30: after loading, the dependencies of every module hold the name of
\* every dependency that its manifest lists, whether or not the dependency
\* was parsed or queued when the manifest was read; so a file that imports
\* only modules that the manifest of its module lists passes import
\* resolution.
C30_DeclaredDependencies ==
    /\ loader.state = "ok" =>
          \A names \in ModulePaths(LoadedAst) :
             ManifestNames(SyntaxModule(LoadedAst, names))
                \subseteq SyntaxModule(LoadedAst, names).dependencies
    /\ (ImportsResolved /\ DOMAIN CalledFile.imports \subseteq ManifestNames(CalledModule))
          => semantic.res = "ok"

\* The dependencies of a loaded module are among the names that its
\* manifest lists, and each of them is a module of the Ast.
C30_DependenciesLoaded ==
    loader.state = "ok" =>
        \A names \in ModulePaths(LoadedAst) :
           /\ SyntaxModule(LoadedAst, names).dependencies
                 \subseteq ManifestNames(SyntaxModule(LoadedAst, names))
           /\ SyntaxModule(LoadedAst, names).dependencies \subseteq DOMAIN LoadedAst.modules

\* On the Asts that parse_modules returns, import resolution does not
\* panic, and it fills the imports with the handles of the Ast.
C30_ImportsOfLoaded ==
    ImportsResolved =>
        /\ semantic.res # "panic"
        /\ semantic.res = "ok" =>
              \A import \in DOMAIN CalledFile.imports :
                 CalledSemanticFile.imports[import] = Unwrap(semantic.ast).modules[import]

=============================================================================
